---- MODULE Spec2Model ----
(***************************************************************************)
(* Model of the Arcaid SDK.  The loader (src/unnamed/part_001):            *)
(* window.Arcaid.init, the configuration handshake with the parent, the    *)
(* merge of the two configurations and the loading of the core bundle.     *)
(* The core (src/temp/arcaid-core-sdk.js): the postMessage request and     *)
(* response correlation of ArcaidSDKInstanceImpl, the routing of inbound   *)
(* platform messages, the configuration held by the instance, its ready()  *)
(* promise, the operations of the auth, stats, payments, wallet and        *)
(* multiplayer modules and the listener registries of the                  *)
(* MultiplayerModule.                                                      *)
(*                                                                         *)
(* JavaScript values are tagged records.  A message type is the sequence   *)
(* of its "_"-separated words: "BET_FAILED" is <<"BET", "FAILED">>.  The    *)
(* message ids produced by generateMessageId (time stamp plus random       *)
(* suffix) are modelled as the fresh numbers 1, 2, ...                     *)
(***************************************************************************)
EXTENDS Integers, Sequences, FiniteSets, TLC

\* ------------------------------------------------------------------ bounds
\* number of requestParent calls in one run
MaxRequests == 2
\* number of unsubscribe closures handed out in one run
MaxClosures == 2
\* number of auth.getUserState calls in one run
MaxStateCalls == 2

\* ------------------------------------------------------- JavaScript values
Undefined == [tag |-> "undefined"]
Null == [tag |-> "null"]
Str(s) == [tag |-> "string", s |-> s]
Bool(b) == [tag |-> "boolean", b |-> b]
Num(n) == [tag |-> "number", n |-> n]
NaN == [tag |-> "number", nan |-> TRUE]
Obj(f) == [tag |-> "object", f |-> f]
\* an array, by the sequence of its elements
Arr(items) == [tag |-> "array", items |-> items]
EmptyObj == Obj(<<>>)

\* new Error(message)
ErrMsg(s) == [tag |-> "error", message |-> s]
\* new Error(`Request timed out for ${type}: ${messageId}`)
ErrTimeout(type, id) == [tag |-> "error", timedOutType |-> type, messageId |-> id]
\* new Error(`Platform operation failed with type ${data.type}`)
ErrOpFailed(type) == [tag |-> "error", failedType |-> type]
\* the TypeError of a property read on undefined or null
ErrTypeError == [tag |-> "error", name |-> "TypeError"]

\* JavaScript truthiness of a value
Truthy(v) ==
    CASE v.tag = "undefined" -> FALSE
      [] v.tag = "null" -> FALSE
      [] v.tag = "string" -> v.s # ""
      [] v.tag = "boolean" -> v.b
      [] v.tag = "number" -> "n" \in DOMAIN v /\ v.n # 0
      [] OTHER -> TRUE

\* v.hasOwnProperty(k) for an object v
HasOwn(v, k) == v.tag = "object" /\ k \in DOMAIN v.f

\* the property read v.k (undefined when v has no such property)
Get(v, k) == IF HasOwn(v, k) THEN v.f[k] ELSE Undefined

\* String(v)
StringOf(v) ==
    CASE v.tag = "string" -> v.s
      [] v.tag = "boolean" -> IF v.b THEN "true" ELSE "false"
      [] v.tag = "undefined" -> "undefined"
      [] v.tag = "null" -> "null"
      [] OTHER -> "[object Object]"

\* { ...a, ...b } on the property maps of two objects
Merge(a, b) ==
    [k \in (DOMAIN a) \cup (DOMAIN b) |-> IF k \in DOMAIN b THEN b[k] ELSE a[k]]

\* the own enumerable properties that { ...v } copies; null and undefined
\* spread to nothing (the index properties of a string are never read by
\* the program and are not tracked)
Spread(v) == IF v.tag = "object" THEN v.f ELSE <<>>

\* --------------------------------------------------------- message types
NoType == <<>>
ARCAID_UPDATE_USER_SESSION == <<"ARCAID", "UPDATE", "USER", "SESSION">>
MULTIPLAYER_ROOM_UPDATE_EVENT == <<"MULTIPLAYER", "ROOM", "UPDATE", "EVENT">>
MULTIPLAYER_GAME_STARTED_EVENT == <<"MULTIPLAYER", "GAME", "STARTED", "EVENT">>
MULTIPLAYER_GAME_FINISHED_EVENT == <<"MULTIPLAYER", "GAME", "FINISHED", "EVENT">>
MULTIPLAYER_ROOM_ERROR_EVENT == <<"MULTIPLAYER", "ROOM", "ERROR", "EVENT">>
MULTIPLAYER_ROOM_MESSAGE_EVENT == <<"MULTIPLAYER", "ROOM", "MESSAGE", "EVENT">>

\* the words of the modelled vocabulary that contain the text "ERROR"
WordsWithERROR == {"ERROR", "ERRORS"}

\* type.includes("ERROR"): "ERROR" has no "_", so it lies inside one word
IncludesERROR(type) == \E i \in 1..Len(type) : type[i] \in WordsWithERROR

\* type.endsWith("_" + words joined by "_")
EndsWithWords(type, words) ==
    /\ Len(type) > Len(words)
    /\ SubSeq(type, Len(type) - Len(words) + 1, Len(type)) = words

\* type.startsWith("MULTIPLAYER_")
StartsWithMULTIPLAYER(type) == Len(type) >= 2 /\ type[1] = "MULTIPLAYER"

\* ------------------------------------------------------------------ state
VARIABLES
    hasParent,              \* window.parent exists and is not the window itself
    sdkInstance,            \* TRUE once ArcaidCore.initialize has built the instance
    internalConfig,         \* sdkInstance._internalConfig, a property map
    authConfig,             \* sdkInstance.auth.config
    readyPromise,           \* state of sdkInstance._readyPromise
    nextId,                 \* number of message ids generated so far
    promise,                \* per request: state and value of deferred.promise
    settleCalls,            \* per request: calls made to deferred.resolve/reject
    pendingRequests,        \* keys of sdkInstance.pendingRequests
    timers,                 \* requests whose setTimeout callback has not run yet
    posted,                 \* envelopes given to window.parent.postMessage
    onRoomUpdateListeners,  \* the registries of the MultiplayerModule; a Set
    onGameStartedListeners, \*   is the sequence of its members in insertion
    onGameFinishedListeners,\*   order, the Map of message listeners is a
    onRoomErrorListeners,   \*   function from its keys to such sequences
    onRoomMessageListeners,
    closures,               \* the unsubscribe closures handed out, each with
                            \*   whether it has been called
    caller,                 \* per request: the module operation that issued it
    opPromise,              \* per request: the promise that operation builds
                            \*   on the deferred's promise
    warned,                 \* requests whose failure send() logged
    userStates,             \* the promises auth.getUserState returned, in call
                            \*   order, each with the state of the gate at the
                            \*   moment of the call (history)
    initCalled,             \* window.Arcaid.initCalled
    coreSdkPromise,         \* state of window.Arcaid._coreSdkPromise
    sdkInitializationError, \* TRUE once the loader stored an error
    initConfigOptions,      \* the developer's configuration kept by init
    platformConfig,         \* the configuration the handshake produced
    mergedConfig,           \* the configuration handed to ArcaidCore.initialize
    scriptSrc,              \* the src given to loadScript
    loaderPc,               \* where the body of init's promise stands
    retriesLeft,            \* retriesLeft of the running loadScript call
    configRequests,         \* REQUEST_ARCAID_PLATFORM_CONFIG messages posted
    configListener,         \* requestConfigFromParent's messageListener is registered
    configTimer,            \* requestConfigFromParent's timeout is scheduled
    loadScriptCalls,        \* calls of loadScript made by init
    loadAttempts,           \* script elements appended by loadScript
    initializeCalls,        \* calls of ArcaidCore.initialize made by init
    last                    \* what the latest task did (history, not program state)

transportVars == <<nextId, promise, settleCalls, pendingRequests, timers, posted>>
configVars == <<internalConfig, authConfig, readyPromise>>
listenerVars == <<onRoomUpdateListeners, onGameStartedListeners,
                  onGameFinishedListeners, onRoomErrorListeners,
                  onRoomMessageListeners>>
moduleVars == <<caller, opPromise, warned, userStates>>
loaderVars == <<initCalled, coreSdkPromise, sdkInitializationError,
                initConfigOptions, platformConfig, mergedConfig, scriptSrc,
                loaderPc, retriesLeft, configRequests, configListener,
                configTimer, loadScriptCalls, loadAttempts, initializeCalls>>
vars == <<hasParent, sdkInstance, configVars, transportVars, listenerVars,
          closures, moduleVars, loaderVars, last>>

MessageIds == 1..MaxRequests

\* ------------------------------------------------------- createDeferred
PendingPromise == [state |-> "pending"]
NoPromise == [state |-> "none"]

\* the promise after resolve(v): only the first settlement has an effect
ResolvePromise(p, v) ==
    IF p.state = "pending" THEN [state |-> "resolved", value |-> v] ELSE p

\* the promise after reject(e)
RejectPromise(p, e) ==
    IF p.state = "pending" THEN [state |-> "rejected", value |-> e] ELSE p

\* ------------------------------------------------------ readiness check
UserSession(loggedIn, token) ==
    Obj([k \in {"isLoggedIn", "sessionToken"} |->
            IF k = "isLoggedIn" THEN Bool(loggedIn) ELSE token])

\* the condition of _checkAndResolveReady on a configuration
SessionPresent(config) ==
    /\ Truthy(Get(Obj(config), "userSession"))
    /\ Truthy(Get(Get(Obj(config), "userSession"), "sessionToken"))

\* a readiness check that looks at the userSession and not at its token
CheckSessionOnly(ready, config) ==
    IF Truthy(Get(Obj(config), "userSession")) /\ ready = "pending"
    THEN "resolved" ELSE ready

\* a readiness check that keeps a flag in step with the condition
CheckAsFlag(ready, config) ==
    IF SessionPresent(config) THEN "resolved" ELSE "pending"

\* _checkAndResolveReady: the ready promise after the check on config
CheckAndResolveReady(ready, config) ==
    IF SessionPresent(config) /\ ready = "pending" THEN "resolved" ELSE ready

\* ---------------------------------------------------------------- Init
\* the state after both scripts' top level ran: init not called, no
\* instance, nothing requested
Init ==
    /\ hasParent \in BOOLEAN
    /\ sdkInstance = FALSE
    /\ internalConfig = <<>>
    /\ authConfig = <<>>
    /\ readyPromise = "pending"
    /\ nextId = 0
    /\ promise = [i \in MessageIds |-> NoPromise]
    /\ settleCalls = [i \in MessageIds |-> 0]
    /\ pendingRequests = {}
    /\ timers = {}
    /\ posted = {}
    /\ onRoomUpdateListeners = <<>>
    /\ onGameStartedListeners = <<>>
    /\ onGameFinishedListeners = <<>>
    /\ onRoomErrorListeners = <<>>
    /\ onRoomMessageListeners = <<>>
    /\ closures = {}
    /\ caller = [i \in MessageIds |-> "none"]
    /\ opPromise = [i \in MessageIds |-> NoPromise]
    /\ warned = {}
    /\ userStates = <<>>
    /\ initCalled = FALSE
    /\ coreSdkPromise = "null"
    /\ sdkInitializationError = FALSE
    /\ initConfigOptions = Null
    /\ platformConfig = EmptyObj
    /\ mergedConfig = <<>>
    /\ scriptSrc = Null
    /\ loaderPc = "idle"
    /\ retriesLeft = 0
    /\ configRequests = 0
    /\ configListener = FALSE
    /\ configTimer = FALSE
    /\ loadScriptCalls = 0
    /\ loadAttempts = 0
    /\ initializeCalls = 0
    /\ last = [op |-> "none"]

\* ------------------------------------------ constructor and initialize
\* the constructor's default for a missing platformOrigin
WithDefaultOrigin(config) ==
    IF Truthy(Get(Obj(config), "platformOrigin"))
    THEN config
    ELSE Merge(config, [k \in {"platformOrigin"} |-> Str("*")])

\* window.ArcaidCore.initialize(finalConfig): builds the instance, whose
\* constructor ends with the first readiness check
Initialize(finalConfig) ==
    /\ ~sdkInstance
    /\ sdkInstance' = TRUE
    /\ internalConfig' = WithDefaultOrigin(finalConfig)
    /\ authConfig' = internalConfig'
    /\ readyPromise' = CheckAndResolveReady("pending", internalConfig')
    /\ last' = [op |-> "initialize"]
    /\ UNCHANGED <<hasParent, transportVars, listenerVars, closures, moduleVars>>

\* _updatePlatformConfig without the readiness re-check
UpdatePlatformConfigNoCheck(chunk) ==
    /\ internalConfig' = Merge(internalConfig, Spread(chunk))
    /\ authConfig' = internalConfig'
    /\ readyPromise' = readyPromise

\* a merge that goes into the objects both sides hold under one key
DeepMerge(a, b) ==
    [k \in (DOMAIN a) \cup (DOMAIN b) |->
        IF k \notin DOMAIN b THEN a[k]
        ELSE IF k \in DOMAIN a /\ a[k].tag = "object" /\ b[k].tag = "object"
             THEN Obj(Merge(a[k].f, b[k].f))
             ELSE b[k]]

\* _updatePlatformConfig with a deep merge
UpdatePlatformConfigDeep(chunk) ==
    /\ internalConfig' = DeepMerge(internalConfig, Spread(chunk))
    /\ authConfig' = internalConfig'
    /\ readyPromise' = CheckAndResolveReady(readyPromise, internalConfig')

\* _updatePlatformConfig(updatedConfigChunk): shallow merge, push to the
\* auth module, re-check readiness
UpdatePlatformConfig(chunk) ==
    /\ internalConfig' = Merge(internalConfig, Spread(chunk))
    /\ authConfig' = internalConfig'
    /\ readyPromise' = CheckAndResolveReady(readyPromise, internalConfig')

\* a || b
OrElse(a, b) == IF Truthy(a) THEN a ELSE b

\* { k: v } and { k1: v1, k2: v2 }
Obj1(k, v) == Obj([x \in {k} |-> v])
Obj2(k1, v1, k2, v2) == Obj([x \in {k1, k2} |-> IF x = k1 THEN v1 ELSE v2])

\* ------------------------------- what a module builds on a request
\* Each operation awaits the promise of requestParent; its continuation
\* runs in the microtasks of the task that settled the deferred, so the
\* promise the operation returned is a function of the deferred's promise.

\* error.message of the errors requestParent rejects with
ErrorMessage(e) ==
    IF "message" \in DOMAIN e THEN Str(e.message) ELSE [tag |-> "text", of |-> e]

\* a makeBet without the catch: the rejection of requestParent as it is
MakeBetResultBare(p) == p


\* makeBet after validation: the response as it is, a failure as
\* { success: false, error: message }
MakeBetResult(p) ==
    IF p.state = "rejected"
    THEN [state |-> "rejected",
          value |-> Obj2("success", Bool(FALSE), "error", ErrorMessage(p.value))]
    ELSE p

\* the message of the error thrown when the response names no room
RoomErrorText(op) ==
    CASE op = "createRoom" ->
            "Create room response did not include room details in payload."
      [] op = "joinRoom" ->
            "Join room response did not include room details in payload."
      [] op = "reconnect" ->
            "Reconnect response did not include room details in payload."

\* a room operation that returns whatever the response holds under room
RoomResultUnchecked(op, p) ==
    IF p.state = "resolved"
    THEN [state |-> "resolved", value |-> Get(p.value, "room")]
    ELSE p

\* createRoom, joinRoom, reconnect: the room of the response, or an error
\* when the response is falsy or its room is
RoomResult(op, p) ==
    IF p.state = "resolved"
    THEN IF ~Truthy(p.value) \/ ~Truthy(Get(p.value, "room"))
         THEN [state |-> "rejected", value |-> ErrMsg(RoomErrorText(op))]
         ELSE [state |-> "resolved", value |-> Get(p.value, "room")]
    ELSE p

\* send without the catch: the chain ends as the request ended
SendChainNoCatch(p) == p

\* send: requestParent(...).catch(warn), the promise that ends the chain
SendChain(p) ==
    IF p.state = "rejected" THEN [state |-> "resolved", value |-> Undefined] ELSE p

RoomOps == {"createRoom", "joinRoom", "reconnect"}

\* getUserBalance: the response as it is; a rejection is rethrown when it
\* is an Error and wrapped into one otherwise
BalanceResult(p) ==
    IF p.state = "rejected" /\ p.value.tag # "error"
    THEN [state |-> "rejected", value |-> ErrMsg(StringOf(p.value))]
    ELSE p

\* leaveRoom, startGame: the response is awaited and dropped
VoidResult(p) ==
    IF p.state = "resolved" THEN [state |-> "resolved", value |-> Undefined] ELSE p

\* getAvailableRooms: responsePayload.rooms || []
RoomsResult(p) ==
    IF p.state = "resolved"
    THEN IF p.value.tag \in {"undefined", "null"}
         THEN [state |-> "rejected", value |-> ErrTypeError]
         ELSE [state |-> "resolved",
               value |-> IF Truthy(Get(p.value, "rooms"))
                         THEN Get(p.value, "rooms") ELSE Arr(<<>>)]
    ELSE p

\* an addUserInput that returns the response whatever it says
InputResultUnchecked(p) == p

\* addUserInput: the response when its success is truthy, else an Error of
\* responsePayload.error || "Failed to add user input"
InputResult(p) ==
    IF p.state = "resolved"
    THEN IF p.value.tag \in {"undefined", "null"}
         THEN [state |-> "rejected", value |-> ErrTypeError]
         ELSE IF ~Truthy(Get(p.value, "success"))
              THEN [state |-> "rejected",
                    value |-> ErrMsg(IF Truthy(Get(p.value, "error"))
                                     THEN StringOf(Get(p.value, "error"))
                                     ELSE "Failed to add user input")]
              ELSE p
    ELSE p

\* `user-${address.substring(0, 6)}`
UserName(address) == [tag |-> "username", first6of |-> address]

\* the object getUserState returns without a session, a true login flag
\* and a session token
LoggedOutState ==
    Obj([k \in {"isLoggedIn", "userId", "username"} |->
            IF k = "isLoggedIn" THEN Bool(FALSE) ELSE Null])

\* what getUserState returns once ready() has resolved, read from
\* currentConfig.userSession
UserStateOf(config) ==
    LET session == Get(Obj(config), "userSession")
        address == Get(session, "userWalletAddress")
    IN  IF \/ ~Truthy(session)
           \/ ~Truthy(Get(session, "isLoggedIn"))
           \/ ~Truthy(Get(session, "sessionToken"))
        THEN LoggedOutState
        ELSE Obj([k \in {"isLoggedIn", "userId", "username"} |->
                    CASE k = "isLoggedIn" -> Get(session, "isLoggedIn")
                      [] k = "userId" -> address
                      [] OTHER -> IF Truthy(address) THEN UserName(address) ELSE Null])

\* a getUserState that reads the session without awaiting ready()
UserStateNoGate(ready, config, p) ==
    IF p.state = "pending"
    THEN [state |-> "resolved", value |-> UserStateOf(config),
          gateAtCall |-> p.gateAtCall]
    ELSE p

\* the promise p of a getUserState call after the microtasks of a task that
\* leaves the gate in state ready and the configuration config: the await
\* of ready() goes on only when the gate is resolved
UserStateAfter(ready, config, p) ==
    IF p.state = "pending" /\ ready = "resolved"
    THEN [state |-> "resolved", value |-> UserStateOf(config),
          gateAtCall |-> p.gateAtCall]
    ELSE p

\* the promise the operation op builds on the deferred's promise p
Continuation(op, p) ==
    CASE op = "none" -> NoPromise
      [] op = "makeBet" -> MakeBetResult(p)
      [] op \in RoomOps -> RoomResult(op, p)
      [] op = "send" -> SendChain(p)
      [] op = "getUserBalance" -> BalanceResult(p)
      [] op \in {"leaveRoom", "startGame"} -> VoidResult(p)
      [] op = "getAvailableRooms" -> RoomsResult(p)
      [] op = "addUserInput" -> InputResult(p)
      [] OTHER -> p

\* the microtasks that follow a task: every continuation catches up with
\* its deferred, the catch handler of send logs a failure, every
\* getUserState waiting for the gate goes on if the gate is resolved
RunContinuations ==
    /\ opPromise' = [i \in MessageIds |-> Continuation(caller'[i], promise'[i])]
    /\ warned' = {i \in MessageIds :
                    caller'[i] = "send" /\ promise'[i].state = "rejected"}
    /\ userStates' = [i \in 1..Len(userStates) |->
                         UserStateAfter(readyPromise', internalConfig', userStates[i])]

\* ------------------------------------------------------- requestParent

\* an envelope that is always addressed to the wildcard
RequestMessageWildcard(type, messageId, payload) ==
    [source |-> "ARCAID_SDK",
     type |-> type,
     messageId |-> messageId,
     gameId |-> OrElse(Get(Obj(internalConfig), "gameId"), Str("")),
     payload |-> payload,
     targetOrigin |-> Str("*")]

\* the envelope requestParent builds, with the target origin it is posted to
RequestMessage(type, messageId, payload) ==
    [source |-> "ARCAID_SDK",
     type |-> type,
     messageId |-> messageId,
     gameId |-> OrElse(Get(Obj(internalConfig), "gameId"), Str("")),
     payload |-> payload,
     targetOrigin |-> OrElse(Get(Obj(internalConfig), "platformOrigin"), Str("*"))]

\* requestParent that forgets to schedule the timeout
RequestWithParentNoTimer(type, messageId, payload) ==
    /\ pendingRequests' = pendingRequests \cup {messageId}
    /\ promise' = [promise EXCEPT ![messageId] = PendingPromise]
    /\ posted' = posted \cup {RequestMessage(type, messageId, payload)}
    /\ UNCHANGED <<timers, settleCalls>>

\* requestParent with a parent window: register, post, schedule the timeout
RequestWithParent(type, messageId, payload) ==
    /\ pendingRequests' = pendingRequests \cup {messageId}
    /\ promise' = [promise EXCEPT ![messageId] = PendingPromise]
    /\ posted' = posted \cup {RequestMessage(type, messageId, payload)}
    /\ timers' = timers \cup {messageId}
    /\ UNCHANGED settleCalls

\* requestParent without a parent that leaves the entry in the table
RequestWithoutParentKeepsEntry(type, messageId, payload) ==
    /\ pendingRequests' = pendingRequests \cup {messageId}
    /\ promise' = [promise EXCEPT
                     ![messageId] = RejectPromise(PendingPromise, ErrMsg("No parent window."))]
    /\ settleCalls' = [settleCalls EXCEPT ![messageId] = @ + 1]
    /\ UNCHANGED <<posted, timers>>

\* requestParent without a parent window: register, reject, unregister
RequestWithoutParent(type, messageId, payload) ==
    /\ pendingRequests' = (pendingRequests \cup {messageId}) \ {messageId}
    /\ promise' = [promise EXCEPT
                     ![messageId] = RejectPromise(PendingPromise, ErrMsg("No parent window."))]
    /\ settleCalls' = [settleCalls EXCEPT ![messageId] = @ + 1]
    /\ UNCHANGED <<posted, timers>>

\* sdkInstance.requestParent(type, payload) called by the operation op,
\* with the microtasks that follow
RequestFrom(op, type, payload) ==
    /\ sdkInstance
    /\ nextId < MaxRequests
    /\ nextId' = nextId + 1
    /\ IF hasParent
       THEN RequestWithParent(type, nextId + 1, payload)
       ELSE RequestWithoutParent(type, nextId + 1, payload)
    /\ caller' = [caller EXCEPT ![nextId + 1] = op]
    /\ UNCHANGED <<hasParent, sdkInstance, configVars, listenerVars, closures,
                   loaderVars>>
    /\ RunContinuations
    /\ last' = [op |-> "request", messageId |-> nextId + 1, caller |-> op,
                type |-> type, payload |-> payload]

\* sdkInstance.requestParent(type, payload) called by the game itself
RequestParent(type, payload) == RequestFrom("requestParent", type, payload)

\* the type a request was issued with (captured by its timeout callback)
TypeOfRequest(messageId) ==
    (CHOOSE env \in posted : env.messageId = messageId).type

\* a timeout callback that rejects without looking at the table
TimeoutBodyUnguarded(messageId) ==
    /\ promise' = [promise EXCEPT ![messageId] =
            RejectPromise(@, ErrTimeout(TypeOfRequest(messageId), messageId))]
    /\ settleCalls' = [settleCalls EXCEPT ![messageId] = @ + 1]
    /\ pendingRequests' = pendingRequests \ {messageId}

\* the body of the timeout callback of request messageId
TimeoutBody(messageId) ==
    IF messageId \in pendingRequests
    THEN /\ promise' = [promise EXCEPT ![messageId] =
                RejectPromise(@, ErrTimeout(TypeOfRequest(messageId), messageId))]
         /\ settleCalls' = [settleCalls EXCEPT ![messageId] = @ + 1]
         /\ pendingRequests' = pendingRequests \ {messageId}
    ELSE UNCHANGED <<promise, settleCalls, pendingRequests>>

\* the timer of request messageId fires, with the microtasks that follow
TimeoutFire(messageId) ==
    /\ messageId \in timers
    /\ timers' = timers \ {messageId}
    /\ TimeoutBody(messageId)
    /\ UNCHANGED <<hasParent, sdkInstance, configVars, nextId, posted, listenerVars,
                   closures, loaderVars, caller>>
    /\ RunContinuations
    /\ last' = [op |-> "timeout", messageId |-> messageId]

\* ---------------------------------------------- the modules' operations
BET_REQUEST == <<"BET", "REQUEST">>
MULTIPLAYER_CREATE_ROOM_REQUEST == <<"MULTIPLAYER", "CREATE", "ROOM", "REQUEST">>
MULTIPLAYER_JOIN_ROOM_REQUEST == <<"MULTIPLAYER", "JOIN", "ROOM", "REQUEST">>
MULTIPLAYER_RECONNECT_ROOM_REQUEST == <<"MULTIPLAYER", "RECONNECT", "ROOM", "REQUEST">>
MULTIPLAYER_SEND_ROOM_MESSAGE_REQUEST ==
    <<"MULTIPLAYER", "SEND", "ROOM", "MESSAGE", "REQUEST">>

\* { k1: v1, k2: v2, k3: v3 }
Obj3(k1, v1, k2, v2, k3, v3) ==
    Obj([x \in {k1, k2, k3} |-> IF x = k1 THEN v1 ELSE IF x = k2 THEN v2 ELSE v3])

\* amount <= 0 for a number; every comparison with NaN is false
AtMostZero(amount) == "n" \in DOMAIN amount /\ amount.n <= 0

\* a parameter check that lets the amount 0 through
InvalidBetBelowZero(roomDocId, amount) ==
    \/ ~Truthy(roomDocId)
    \/ amount.tag # "number"
    \/ ("n" \in DOMAIN amount /\ amount.n < 0)

\* !roomDocId || typeof amount !== 'number' || amount <= 0
InvalidBet(roomDocId, amount) ==
    \/ ~Truthy(roomDocId)
    \/ amount.tag # "number"
    \/ AtMostZero(amount)

\* Promise.reject({ success: false, error: errorMsg })
BetRejection(errorMsg) ==
    [state |-> "rejected",
     value |-> Obj2("success", Bool(FALSE), "error", Str(errorMsg))]

\* makeBet returns a rejected promise without calling requestParent
RefuseBet(roomDocId, amount, errorMsg) ==
    /\ last' = [op |-> "makeBet", roomDocId |-> roomDocId, amount |-> amount,
                returned |-> BetRejection(errorMsg)]
    /\ UNCHANGED <<hasParent, sdkInstance, configVars, transportVars, listenerVars,
                   closures, moduleVars, loaderVars>>

\* payments.makeBet(roomDocId, amount, reason)
MakeBet(roomDocId, amount, reason) ==
    /\ sdkInstance
    /\ IF ~Truthy(Get(Obj(internalConfig), "gameId"))
       THEN RefuseBet(roomDocId, amount,
                "Arcaid SDK (PaymentsModule): Cannot make bet. SDK not fully initialized or gameId missing.")
       ELSE IF InvalidBet(roomDocId, amount)
            THEN RefuseBet(roomDocId, amount,
                     "Arcaid SDK (PaymentsModule): Invalid parameters for makeBet. roomId and positive amount required.")
            ELSE RequestFrom("makeBet", BET_REQUEST,
                             Obj3("roomDocId", roomDocId, "amount", amount,
                                  "reason", reason))

\* multiplayer.createRoom(roomType, options)
CreateRoom(roomType, options) ==
    RequestFrom("createRoom", MULTIPLAYER_CREATE_ROOM_REQUEST,
                Obj2("roomType", roomType, "options", options))

\* multiplayer.joinRoom(roomId, options)
JoinRoom(roomId, options) ==
    RequestFrom("joinRoom", MULTIPLAYER_JOIN_ROOM_REQUEST,
                Obj2("roomId", roomId, "options", options))

\* multiplayer.reconnect(reconnectToken)
Reconnect(reconnectToken) ==
    RequestFrom("reconnect", MULTIPLAYER_RECONNECT_ROOM_REQUEST,
                Obj1("reconnectToken", reconnectToken))

\* multiplayer.send(messageType, messageData); the call returns undefined
Send(messageType, messageData) ==
    RequestFrom("send", MULTIPLAYER_SEND_ROOM_MESSAGE_REQUEST,
                Obj2("messageType", messageType, "messageData", messageData))

GET_PLAYER_REQUEST == <<"GET", "PLAYER", "REQUEST">>
LOGIN_REQUEST == <<"LOGIN", "REQUEST">>
GET_USER_BALANCE_REQUEST == <<"GET", "USER", "BALANCE", "REQUEST">>
MULTIPLAYER_LEAVE_ROOM_REQUEST == <<"MULTIPLAYER", "LEAVE", "ROOM", "REQUEST">>
MULTIPLAYER_GET_AVAILABLE_ROOMS_REQUEST ==
    <<"MULTIPLAYER", "GET", "AVAILABLE", "ROOMS", "REQUEST">>
MULTIPLAYER_START_GAME_REQUEST == <<"MULTIPLAYER", "START", "GAME", "REQUEST">>
ADD_USER_INPUT_REQUEST == <<"ADD", "USER", "INPUT", "REQUEST">>

\* auth.getPlayer()
GetPlayer == RequestFrom("getPlayer", GET_PLAYER_REQUEST, EmptyObj)

\* auth.login()
Login == RequestFrom("login", LOGIN_REQUEST, EmptyObj)

\* wallet.getUserBalance()
GetUserBalance == RequestFrom("getUserBalance", GET_USER_BALANCE_REQUEST, EmptyObj)

\* multiplayer.leaveRoom()
LeaveRoom == RequestFrom("leaveRoom", MULTIPLAYER_LEAVE_ROOM_REQUEST, EmptyObj)

\* multiplayer.getAvailableRooms(roomType)
GetAvailableRooms(roomType) ==
    RequestFrom("getAvailableRooms", MULTIPLAYER_GET_AVAILABLE_ROOMS_REQUEST,
                Obj1("roomType", roomType))

\* multiplayer.startGame()
StartGame == RequestFrom("startGame", MULTIPLAYER_START_GAME_REQUEST, EmptyObj)

\* multiplayer.addUserInput(playerInput, roomDocId)
AddUserInput(playerInput, roomDocId) ==
    RequestFrom("addUserInput", ADD_USER_INPUT_REQUEST,
                Obj2("playerInput", playerInput, "roomDocId", roomDocId))

\* the methods of the StatsModule class, whose body is its constructor
StatsModuleMethods == {}

\* sdk.stats.trackEvent(eventName, eventData): calling a property that is
\* not a function throws a TypeError
TrackEvent(eventName, eventData) ==
    /\ sdkInstance
    /\ last' = [op |-> "trackEvent", eventName |-> eventName,
                outcome |-> IF "trackEvent" \in StatsModuleMethods
                            THEN "promise" ELSE "TypeError"]
    /\ UNCHANGED <<hasParent, sdkInstance, configVars, transportVars, listenerVars,
                   closures, moduleVars, loaderVars>>

\* the promise of a getUserState call that has reached its await
CalledWith(ready) == [state |-> "pending", gateAtCall |-> ready]

\* auth.getUserState(): await ready(), then read the session; the
\* microtasks of the call run the rest when the gate is already resolved
GetUserState ==
    /\ sdkInstance
    /\ Len(userStates) < MaxStateCalls
    /\ userStates' = Append(userStates,
                            UserStateAfter(readyPromise, internalConfig,
                                           CalledWith(readyPromise)))
    /\ last' = [op |-> "getUserState", call |-> Len(userStates) + 1]
    /\ UNCHANGED <<hasParent, sdkInstance, configVars, transportVars, listenerVars,
                   closures, caller, opPromise, warned, loaderVars>>

\* ------------------------------------------------ _resolvePendingRequest
\* data.messageId is a number of MessageIds, or 0 when the message has none
Matches(data) == data.messageId # 0 /\ data.messageId \in pendingRequests

\* payload is an object with an own error that is neither undefined nor null
PayloadSignalsError(payload) ==
    /\ payload.tag = "object"
    /\ HasOwn(payload, "error")
    /\ payload.f["error"].tag \notin {"undefined", "null"}

\* the test on data.type of the second branch
TypeSignalsError(type) ==
    \/ IncludesERROR(type)
    \/ EndsWithWords(type, <<"FAILED">>)
    \/ EndsWithWords(type, <<"ERROR", "RESPONSE">>)

\* the error the second branch rejects with
TypeError(data) ==
    IF data.payload.tag = "object" /\ Truthy(Get(data.payload, "message"))
    THEN ErrMsg(StringOf(Get(data.payload, "message")))
    ELSE IF data.payload.tag = "string" /\ Truthy(data.payload)
         THEN ErrMsg(data.payload.s)
         ELSE ErrOpFailed(data.type)

\* a classification that looks at the type before the payload's error
SettlementTypeFirst(data) ==
    IF data.type = NoType
    THEN [how |-> "throw"]
    ELSE IF TypeSignalsError(data.type)
         THEN [how |-> "reject", value |-> TypeError(data)]
         ELSE IF PayloadSignalsError(data.payload)
              THEN [how |-> "reject", value |-> ErrMsg(StringOf(data.payload.f["error"]))]
              ELSE [how |-> "resolve", value |-> data.payload]

\* what _resolvePendingRequest does with the deferred of a matching message:
\* data.type.includes throws a TypeError when the message has no type
Settlement(data) ==
    IF PayloadSignalsError(data.payload)
    THEN [how |-> "reject", value |-> ErrMsg(StringOf(data.payload.f["error"]))]
    ELSE IF data.type = NoType
         THEN [how |-> "throw"]
         ELSE IF TypeSignalsError(data.type)
              THEN [how |-> "reject", value |-> TypeError(data)]
              ELSE [how |-> "resolve", value |-> data.payload]

\* the promise of a deferred after the settlement s is applied to it
Settle(p, s) ==
    IF s.how = "resolve" THEN ResolvePromise(p, s.value) ELSE RejectPromise(p, s.value)

\* _resolvePendingRequest that empties the table instead of deleting one key
ResolvePendingRequestClearsAll(data) ==
    LET s == Settlement(data)
    IN  IF s.how = "throw"
        THEN UNCHANGED <<promise, settleCalls, pendingRequests>>
        ELSE /\ promise' = [promise EXCEPT ![data.messageId] = Settle(@, s)]
             /\ settleCalls' = [settleCalls EXCEPT ![data.messageId] = @ + 1]
             /\ pendingRequests' = {}

\* _resolvePendingRequest that settles the deferred and keeps its entry
ResolvePendingRequestKeepsEntry(data) ==
    LET s == Settlement(data)
    IN  IF s.how = "throw"
        THEN UNCHANGED <<promise, settleCalls, pendingRequests>>
        ELSE /\ promise' = [promise EXCEPT ![data.messageId] = Settle(@, s)]
             /\ settleCalls' = [settleCalls EXCEPT ![data.messageId] = @ + 1]
             /\ UNCHANGED pendingRequests

\* _resolvePendingRequest on a matching message; an exception leaves the
\* entry in the table
ResolvePendingRequest(data) ==
    LET s == Settlement(data)
    IN  IF s.how = "throw"
        THEN UNCHANGED <<promise, settleCalls, pendingRequests>>
        ELSE /\ promise' = [promise EXCEPT ![data.messageId] = Settle(@, s)]
             /\ settleCalls' = [settleCalls EXCEPT ![data.messageId] = @ + 1]
             /\ pendingRequests' = pendingRequests \ {data.messageId}

\* ------------------------------- MultiplayerModule.handlePlatformMessage
\* the game's callback throws when it is called; the others return
Throws(callback) == callback = "thrower"

\* the position of the first listener that throws, 0 when none does
FirstThrow(listeners) ==
    IF \E i \in 1..Len(listeners) : Throws(listeners[i])
    THEN CHOOSE i \in 1..Len(listeners) :
            /\ Throws(listeners[i])
            /\ \A j \in 1..(i - 1) : ~Throws(listeners[j])
    ELSE 0

\* listeners.forEach(cb => cb(arg)), as the sequence of the calls made:
\* in insertion order, up to the call that throws, whose exception leaves
\* forEach and the method that called it
ForEach(listeners, arg) ==
    [i \in 1..(IF FirstThrow(listeners) = 0 THEN Len(listeners)
                ELSE FirstThrow(listeners)) |->
        [callback |-> listeners[i], arg |-> arg]]

\* map.has(key) ? map.get(key) : the empty set
ListenersFor(map, key) == IF key \in DOMAIN map THEN map[key] ELSE <<>>

\* { type: messageType, data: messageData }
Envelope(messageType, messageData) ==
    Obj([k \in {"type", "data"} |-> IF k = "type" THEN messageType ELSE messageData])

\* a dispatch that hands the wildcard listeners the bare messageData
RoomMessageCallsBareWildcard(payload) ==
    IF Truthy(payload) /\ Get(payload, "messageType") # Undefined
    THEN LET messageType == Get(payload, "messageType")
             messageData == Get(payload, "messageData")
         IN  ForEach(ListenersFor(onRoomMessageListeners, messageType), messageData)
             \o ForEach(ListenersFor(onRoomMessageListeners, Str("*")), messageData)
    ELSE <<>>

\* the calls of the MULTIPLAYER_ROOM_MESSAGE_EVENT case
RoomMessageCalls(payload) ==
    IF Truthy(payload) /\ Get(payload, "messageType") # Undefined
    THEN LET messageType == Get(payload, "messageType")
             messageData == Get(payload, "messageData")
         IN  ForEach(ListenersFor(onRoomMessageListeners, messageType), messageData)
             \o IF FirstThrow(ListenersFor(onRoomMessageListeners, messageType)) = 0
                THEN ForEach(ListenersFor(onRoomMessageListeners, Str("*")),
                             Envelope(messageType, messageData))
                ELSE <<>>
    ELSE <<>>

\* a dispatch whose started-game case also runs the room-update listeners
HandlePlatformMessageShared(data) ==
    IF Matches(data)
    THEN <<>>
    ELSE CASE data.type = MULTIPLAYER_ROOM_UPDATE_EVENT ->
                ForEach(onRoomUpdateListeners, data.payload)
           [] data.type = MULTIPLAYER_GAME_STARTED_EVENT ->
                ForEach(onRoomUpdateListeners, data.payload)
                \o ForEach(onGameStartedListeners, data.payload)
           [] data.type = MULTIPLAYER_GAME_FINISHED_EVENT ->
                ForEach(onGameFinishedListeners, data.payload)
           [] data.type = MULTIPLAYER_ROOM_ERROR_EVENT ->
                ForEach(onRoomErrorListeners, data.payload)
           [] data.type = MULTIPLAYER_ROOM_MESSAGE_EVENT ->
                RoomMessageCalls(data.payload)
           [] OTHER -> <<>>

\* the listener calls handlePlatformMessage makes for data
HandlePlatformMessage(data) ==
    IF Matches(data)
    THEN <<>>
    ELSE CASE data.type = MULTIPLAYER_ROOM_UPDATE_EVENT ->
                ForEach(onRoomUpdateListeners, data.payload)
           [] data.type = MULTIPLAYER_GAME_STARTED_EVENT ->
                ForEach(onGameStartedListeners, data.payload)
           [] data.type = MULTIPLAYER_GAME_FINISHED_EVENT ->
                ForEach(onGameFinishedListeners, data.payload)
           [] data.type = MULTIPLAYER_ROOM_ERROR_EVENT ->
                ForEach(onRoomErrorListeners, data.payload)
           [] data.type = MULTIPLAYER_ROOM_MESSAGE_EVENT ->
                RoomMessageCalls(data.payload)
           [] OTHER -> <<>>

\* ------------------------------------------- _handleMessageFromPlatform
\* a routing that looks at the type before the pending table
RouteByTypeFirst(data) ==
    IF data.type = ARCAID_UPDATE_USER_SESSION THEN "config"
    ELSE IF data.type # NoType /\ StartsWithMULTIPLAYER(data.type) THEN "multiplayer"
    ELSE IF Matches(data) THEN "response"
    ELSE "ignored"

\* where the message goes: "response" when it matches a pending request,
\* else by its type
Route(data) ==
    IF Matches(data) THEN "response"
    ELSE IF data.type = ARCAID_UPDATE_USER_SESSION THEN "config"
    ELSE IF data.type # NoType /\ StartsWithMULTIPLAYER(data.type) THEN "multiplayer"
    ELSE "ignored"

\* _handleMessageFromPlatform(data)
HandleMessageFromPlatform(e) ==
    LET data == e.data
        route == Route(data)
    IN  /\ IF route = "response"
           THEN ResolvePendingRequest(data)
           ELSE UNCHANGED <<promise, settleCalls, pendingRequests>>
        /\ IF route = "config"
           THEN UpdatePlatformConfig(data.payload)
           ELSE UNCHANGED configVars
        /\ last' = [op |-> "message", event |-> e, route |-> route,
                    outcome |-> IF route = "response" THEN Settlement(data).how ELSE "none",
                    calls |-> IF route = "multiplayer"
                              THEN HandlePlatformMessage(data) ELSE <<>>]

\* ------------------------------------------- the window message listener
\* a listener without the origin check
OriginNeverRefused(origin) == FALSE

\* the origin check of the listener
OriginRefused(origin) ==
    LET expectedOrigin ==
            IF sdkInstance THEN Get(Obj(internalConfig), "platformOrigin") ELSE Undefined
    IN  Truthy(expectedOrigin) /\ expectedOrigin # Str("*") /\ Str(origin) # expectedOrigin

\* the listener hands the message to the instance
Accepted(e) ==
    ~OriginRefused(e.origin) /\ e.data.source = "ARCAID_PLATFORM" /\ sdkInstance

\* a message event e = [origin, data] reaches the window, with the
\* microtasks that follow
WindowMessage(e) ==
    /\ IF Accepted(e)
       THEN HandleMessageFromPlatform(e)
       ELSE /\ last' = [op |-> "message", event |-> e, route |-> "dropped",
                        outcome |-> "none", calls |-> <<>>]
            /\ UNCHANGED <<configVars, promise, settleCalls, pendingRequests>>
    /\ UNCHANGED caller
    /\ RunContinuations
    /\ UNCHANGED <<hasParent, sdkInstance, nextId, timers, posted, listenerVars,
                   closures, loaderVars>>

\* ------------------------------------------------ listener registration
\* set.add(callback) on an insertion-ordered Set
SetAdd(listeners, callback) ==
    IF \E i \in 1..Len(listeners) : listeners[i] = callback
    THEN listeners
    ELSE Append(listeners, callback)

\* a delete that empties the set
SetDeleteAll(listeners, callback) == <<>>

\* set.delete(callback)
SetDelete(listeners, callback) ==
    SelectSeq(listeners, LAMBDA c : c # callback)

\* the Map of message listeners after onMessage(type, callback)
MapAdd(map, type, callback) ==
    [k \in (DOMAIN map) \cup {type} |->
        IF k = type THEN SetAdd(ListenersFor(map, type), callback) ELSE map[k]]

\* an unsubscribe closure that deletes the key with all its listeners
MapDeleteKey(map, type, callback) ==
    [k \in (DOMAIN map) \ {type} |-> map[k]]

\* the Map after the unsubscribe closure of onMessage(type, callback)
MapDelete(map, type, callback) ==
    IF type \notin DOMAIN map
    THEN map
    ELSE IF Len(SetDelete(map[type], callback)) = 0
         THEN [k \in (DOMAIN map) \ {type} |-> map[k]]
         ELSE [map EXCEPT ![type] = SetDelete(@, callback)]

\* the unsubscribe closure an on...() call returns; key is the message type
\* of onMessage and undefined for the other registries
Closure(registry, key, callback, called) ==
    [registry |-> registry, key |-> key, callback |-> callback, called |-> called]

\* an on...() call hands out a closure that has not been called
HandOut(registry, key, callback) ==
    /\ Cardinality(closures) < MaxClosures
    /\ closures' = closures \cup {Closure(registry, key, callback, FALSE)}

\* a closure is called: for the first time, or again when stale
CallClosure(registry, key, callback, stale) ==
    /\ Closure(registry, key, callback, stale) \in closures
    /\ closures' = (closures \ {Closure(registry, key, callback, stale)})
                       \cup {Closure(registry, key, callback, TRUE)}

\* multiplayer.onRoomUpdate(callback)
OnRoomUpdate(callback) ==
    /\ sdkInstance
    /\ onRoomUpdateListeners' = SetAdd(onRoomUpdateListeners, callback)
    /\ HandOut("roomUpdate", Undefined, callback)
    /\ last' = [op |-> "on", registry |-> "roomUpdate", key |-> Undefined,
                callback |-> callback]
    /\ UNCHANGED <<hasParent, sdkInstance, configVars, transportVars,
                   moduleVars, loaderVars,
                   onGameStartedListeners, onGameFinishedListeners,
                   onRoomErrorListeners, onRoomMessageListeners>>

\* multiplayer.onMessage(type, callback)
OnMessage(type, callback) ==
    /\ sdkInstance
    /\ onRoomMessageListeners' = MapAdd(onRoomMessageListeners, type, callback)
    /\ HandOut("roomMessage", type, callback)
    /\ last' = [op |-> "on", registry |-> "roomMessage", key |-> type,
                callback |-> callback]
    /\ UNCHANGED <<hasParent, sdkInstance, configVars, transportVars,
                   moduleVars, loaderVars,
                   onRoomUpdateListeners, onGameStartedListeners,
                   onGameFinishedListeners, onRoomErrorListeners>>

\* multiplayer.onGameStarted(callback)
OnGameStarted(callback) ==
    /\ sdkInstance
    /\ onGameStartedListeners' = SetAdd(onGameStartedListeners, callback)
    /\ HandOut("gameStarted", Undefined, callback)
    /\ last' = [op |-> "on", registry |-> "gameStarted", key |-> Undefined,
                callback |-> callback]
    /\ UNCHANGED <<hasParent, sdkInstance, configVars, transportVars,
                   moduleVars, loaderVars,
                   onRoomUpdateListeners, onGameFinishedListeners,
                   onRoomErrorListeners, onRoomMessageListeners>>

\* multiplayer.onGameFinished(callback)
OnGameFinished(callback) ==
    /\ sdkInstance
    /\ onGameFinishedListeners' = SetAdd(onGameFinishedListeners, callback)
    /\ HandOut("gameFinished", Undefined, callback)
    /\ last' = [op |-> "on", registry |-> "gameFinished", key |-> Undefined,
                callback |-> callback]
    /\ UNCHANGED <<hasParent, sdkInstance, configVars, transportVars,
                   moduleVars, loaderVars,
                   onRoomUpdateListeners, onGameStartedListeners,
                   onRoomErrorListeners, onRoomMessageListeners>>

\* multiplayer.onRoomError(callback)
OnRoomError(callback) ==
    /\ sdkInstance
    /\ onRoomErrorListeners' = SetAdd(onRoomErrorListeners, callback)
    /\ HandOut("roomError", Undefined, callback)
    /\ last' = [op |-> "on", registry |-> "roomError", key |-> Undefined,
                callback |-> callback]
    /\ UNCHANGED <<hasParent, sdkInstance, configVars, transportVars,
                   moduleVars, loaderVars,
                   onRoomUpdateListeners, onGameStartedListeners,
                   onGameFinishedListeners, onRoomMessageListeners>>

\* the closure returned by onRoomUpdate(callback) is called; stale when it
\* has been called before
OffRoomUpdate(callback, stale) ==
    /\ sdkInstance
    /\ CallClosure("roomUpdate", Undefined, callback, stale)
    /\ onRoomUpdateListeners' = SetDelete(onRoomUpdateListeners, callback)
    /\ last' = [op |-> "off", registry |-> "roomUpdate", key |-> Undefined,
                callback |-> callback, stale |-> stale]
    /\ UNCHANGED <<hasParent, sdkInstance, configVars, transportVars,
                   moduleVars, loaderVars,
                   onGameStartedListeners, onGameFinishedListeners,
                   onRoomErrorListeners, onRoomMessageListeners>>

\* the closure returned by onMessage(type, callback) is called
OffMessage(type, callback, stale) ==
    /\ sdkInstance
    /\ CallClosure("roomMessage", type, callback, stale)
    /\ onRoomMessageListeners' = MapDelete(onRoomMessageListeners, type, callback)
    /\ last' = [op |-> "off", registry |-> "roomMessage", key |-> type,
                callback |-> callback, stale |-> stale]
    /\ UNCHANGED <<hasParent, sdkInstance, configVars, transportVars,
                   moduleVars, loaderVars,
                   onRoomUpdateListeners, onGameStartedListeners,
                   onGameFinishedListeners, onRoomErrorListeners>>

\* the closure returned by onGameStarted(callback) is called; stale when it
\* has been called before
OffGameStarted(callback, stale) ==
    /\ sdkInstance
    /\ CallClosure("gameStarted", Undefined, callback, stale)
    /\ onGameStartedListeners' = SetDelete(onGameStartedListeners, callback)
    /\ last' = [op |-> "off", registry |-> "gameStarted", key |-> Undefined,
                callback |-> callback, stale |-> stale]
    /\ UNCHANGED <<hasParent, sdkInstance, configVars, transportVars,
                   moduleVars, loaderVars,
                   onRoomUpdateListeners, onGameFinishedListeners,
                   onRoomErrorListeners, onRoomMessageListeners>>

\* the closure returned by onGameFinished(callback) is called; stale when it
\* has been called before
OffGameFinished(callback, stale) ==
    /\ sdkInstance
    /\ CallClosure("gameFinished", Undefined, callback, stale)
    /\ onGameFinishedListeners' = SetDelete(onGameFinishedListeners, callback)
    /\ last' = [op |-> "off", registry |-> "gameFinished", key |-> Undefined,
                callback |-> callback, stale |-> stale]
    /\ UNCHANGED <<hasParent, sdkInstance, configVars, transportVars,
                   moduleVars, loaderVars,
                   onRoomUpdateListeners, onGameStartedListeners,
                   onRoomErrorListeners, onRoomMessageListeners>>

\* the closure returned by onRoomError(callback) is called; stale when it
\* has been called before
OffRoomError(callback, stale) ==
    /\ sdkInstance
    /\ CallClosure("roomError", Undefined, callback, stale)
    /\ onRoomErrorListeners' = SetDelete(onRoomErrorListeners, callback)
    /\ last' = [op |-> "off", registry |-> "roomError", key |-> Undefined,
                callback |-> callback, stale |-> stale]
    /\ UNCHANGED <<hasParent, sdkInstance, configVars, transportVars,
                   moduleVars, loaderVars,
                   onRoomUpdateListeners, onGameStartedListeners,
                   onGameFinishedListeners, onRoomMessageListeners>>

\* ------------------------------------------- the loader: merged config
\* retries given to loadScript by init
LoadRetries == 3

ARCAID_PLATFORM_CONFIG_RESPONSE == <<"ARCAID", "PLATFORM", "CONFIG", "RESPONSE">>

\* reading a property of undefined or null throws a TypeError
ReadThrows(v) == v.tag \in {"undefined", "null"}

\* the property map with map[k] = v
With(map, k, v) == Merge(map, [x \in {k} |-> v])

\* `https://cdn.arcaid.com/sdk/core/v${version}/arcaid-core-sdk.js`
DefaultCoreSdkUrl(version) == [tag |-> "url", version |-> StringOf(version)]

\* a URL choice that asks the platform before the developer
CoreSdkUrlPlatformFirst(dev, platform, merged) ==
    OrElse(Get(platform, "coreSdkUrl"),
           OrElse(Get(dev, "coreSdkUrl"),
                  DefaultCoreSdkUrl(OrElse(Get(Obj(merged), "sdkVersion"),
                                           Str("current")))))

\* the URL of the core bundle: the developer's, else the platform's, else
\* the default for merged.sdkVersion or for "current"
CoreSdkUrl(dev, platform, merged) ==
    OrElse(Get(dev, "coreSdkUrl"),
           OrElse(Get(platform, "coreSdkUrl"),
                  DefaultCoreSdkUrl(OrElse(Get(Obj(merged), "sdkVersion"),
                                           Str("current")))))

\* a merge that spreads the developer's configuration last and has no
\* line for the userSession
MergedConfigDeveloperLast(dev, platform) ==
    LET spread == Merge(Spread(platform), Spread(dev))
    IN  With(spread, "coreSdkUrl", CoreSdkUrl(dev, platform, spread))

\* mergedConfig as init builds it from initConfigOptions and platformConfig:
\* the two spreads, the three conditional assignments, the coreSdkUrl
MergedConfig(dev, platform) ==
    LET spread == Merge(Spread(dev), Spread(platform))
        withSession ==
            IF Truthy(Get(platform, "userSession"))
            THEN With(spread, "userSession", Get(platform, "userSession"))
            ELSE spread
        withApi ==
            IF /\ Truthy(Get(platform, "arcaidApiBaseUrl"))
               /\ ~Truthy(Get(dev, "arcaidApiBaseUrl"))
            THEN With(withSession, "arcaidApiBaseUrl", Get(platform, "arcaidApiBaseUrl"))
            ELSE withSession
        withVersion ==
            IF /\ Truthy(Get(platform, "sdkVersion"))
               /\ ~Truthy(Get(dev, "sdkVersion"))
            THEN With(withApi, "sdkVersion", Get(platform, "sdkVersion"))
            ELSE withApi
    IN  With(withVersion, "coreSdkUrl", CoreSdkUrl(dev, platform, withVersion))

\* ------------------------------------------------- the loader: init
\* the catch of init's promise body: store the error, reject
InitFails ==
    /\ loaderPc' = "failed"
    /\ coreSdkPromise' = "rejected"
    /\ sdkInitializationError' = TRUE

\* the body of init's promise from the merge on, platform being what the
\* handshake left in platformConfig: merge, then loadScript(coreSdkUrl, 3)
ProceedWith(platform) ==
    /\ platformConfig' = platform
    /\ IF ReadThrows(platform)
       THEN /\ InitFails
            /\ UNCHANGED <<mergedConfig, scriptSrc, retriesLeft, loadScriptCalls,
                           loadAttempts>>
       ELSE /\ mergedConfig' = MergedConfig(initConfigOptions', platform)
            /\ scriptSrc' = mergedConfig'["coreSdkUrl"]
            /\ loaderPc' = "loading"
            /\ coreSdkPromise' = "pending"
            /\ retriesLeft' = LoadRetries
            /\ loadScriptCalls' = loadScriptCalls + 1
            /\ loadAttempts' = loadAttempts + 1
            /\ UNCHANGED sdkInitializationError

\* init past its two early returns: keep the developer's configuration,
\* create the promise; inside a frame its body posts the config request and
\* waits, in a top window it goes straight to the merge
StartInit(devConfig) ==
    /\ initConfigOptions' = OrElse(devConfig, EmptyObj)
    /\ IF hasParent
       THEN /\ configRequests' = configRequests + 1
            /\ configListener' = TRUE
            /\ configTimer' = TRUE
            /\ loaderPc' = "handshake"
            /\ coreSdkPromise' = "pending"
            /\ UNCHANGED <<platformConfig, mergedConfig, scriptSrc, retriesLeft,
                           loadScriptCalls, loadAttempts, sdkInitializationError>>
       ELSE /\ ProceedWith(EmptyObj)
            /\ UNCHANGED <<configRequests, configListener, configTimer>>
    /\ UNCHANGED initializeCalls

\* an init that starts over on every call
ArcaidInitAlwaysStarts(devConfig) ==
    /\ initCalled' = TRUE
    /\ StartInit(devConfig)
    /\ last' = [op |-> "init",
                returned |-> IF coreSdkPromise = "null"
                             THEN "coreSdkPromise" ELSE "another promise"]
    /\ UNCHANGED <<hasParent, sdkInstance, configVars, transportVars, listenerVars,
                   closures, moduleVars>>

\* window.Arcaid.init(devConfig)
ArcaidInit(devConfig) ==
    /\ initCalled' = TRUE
    /\ IF coreSdkPromise # "null"
       THEN /\ last' = [op |-> "init", returned |-> "coreSdkPromise"]
            /\ UNCHANGED <<coreSdkPromise, sdkInitializationError, initConfigOptions,
                           platformConfig, mergedConfig, scriptSrc, loaderPc,
                           retriesLeft, configRequests, configListener,
                           configTimer, loadScriptCalls, loadAttempts,
                           initializeCalls>>
       ELSE IF sdkInitializationError
            THEN /\ last' = [op |-> "init", returned |-> "another promise"]
                 /\ UNCHANGED <<coreSdkPromise, sdkInitializationError,
                                initConfigOptions, platformConfig, mergedConfig,
                                scriptSrc, loaderPc, retriesLeft, configRequests,
                                configListener, configTimer, loadScriptCalls,
                                loadAttempts, initializeCalls>>
            ELSE /\ StartInit(devConfig)
                 /\ last' = [op |-> "init", returned |-> "coreSdkPromise"]
    /\ UNCHANGED <<hasParent, sdkInstance, configVars, transportVars, listenerVars,
                   closures, moduleVars>>

\* a messageListener that does not compare the messageId
LoaderMessageAnyId(e) ==
    /\ configRequests > 0
    /\ UNCHANGED <<initCalled, initConfigOptions, configRequests, initializeCalls>>
    /\ IF configListener /\ e.type = ARCAID_PLATFORM_CONFIG_RESPONSE
       THEN /\ configTimer' = FALSE
            /\ configListener' = FALSE
            /\ IF loaderPc = "handshake"
               THEN ProceedWith(e.payload)
               ELSE UNCHANGED <<coreSdkPromise, sdkInitializationError,
                                platformConfig, mergedConfig, scriptSrc, loaderPc,
                                retriesLeft, loadScriptCalls, loadAttempts>>
       ELSE UNCHANGED <<configListener, configTimer, coreSdkPromise,
                        sdkInitializationError, platformConfig, mergedConfig,
                        scriptSrc, loaderPc, retriesLeft, loadScriptCalls,
                        loadAttempts>>
    /\ last' = [op |-> "loaderMessage", event |-> e]
    /\ UNCHANGED <<hasParent, sdkInstance, configVars, transportVars, listenerVars,
                   closures, moduleVars>>


\* a message event with data e (type, whether its messageId is the
\* request's, payload) reaches the window after the config request was
\* posted: messageListener of requestConfigFromParent runs while it is
\* registered; a matching message clears the timeout, removes the listener
\* and resolves the promise, on which init's body goes on
LoaderMessage(e) ==
    /\ configRequests > 0
    /\ UNCHANGED <<initCalled, initConfigOptions, configRequests, initializeCalls>>
    /\ IF configListener /\ e.type = ARCAID_PLATFORM_CONFIG_RESPONSE /\ e.sameId
       THEN /\ configTimer' = FALSE
            /\ configListener' = FALSE
            /\ IF loaderPc = "handshake"
               THEN ProceedWith(e.payload)
               ELSE UNCHANGED <<coreSdkPromise, sdkInitializationError,
                                platformConfig, mergedConfig, scriptSrc, loaderPc,
                                retriesLeft, loadScriptCalls, loadAttempts>>
       ELSE UNCHANGED <<configListener, configTimer, coreSdkPromise,
                        sdkInitializationError, platformConfig, mergedConfig,
                        scriptSrc, loaderPc, retriesLeft, loadScriptCalls,
                        loadAttempts>>
    /\ last' = [op |-> "loaderMessage", event |-> e]
    /\ UNCHANGED <<hasParent, sdkInstance, configVars, transportVars, listenerVars,
                   closures, moduleVars>>

\* the timeout of requestConfigFromParent fires: it removes the listener
\* and rejects the promise; init catches the rejection and platformConfig
\* stays {}
HandshakeTimeout ==
    /\ configTimer
    /\ configTimer' = FALSE
    /\ configListener' = FALSE
    /\ UNCHANGED <<initCalled, initConfigOptions, configRequests, initializeCalls>>
    /\ IF loaderPc = "handshake"
       THEN ProceedWith(EmptyObj)
       ELSE UNCHANGED <<coreSdkPromise, sdkInitializationError, platformConfig,
                        mergedConfig, scriptSrc, loaderPc, retriesLeft,
                        loadScriptCalls, loadAttempts>>
    /\ last' = [op |-> "handshakeTimeout"]
    /\ UNCHANGED <<hasParent, sdkInstance, configVars, transportVars, listenerVars,
                   closures, moduleVars>>

\* script.onload: init goes on with window.ArcaidCore; valid when the
\* script defined ArcaidCore.initialize
ScriptLoaded(valid) ==
    /\ loaderPc = "loading"
    /\ UNCHANGED <<initCalled, initConfigOptions, platformConfig, mergedConfig,
                   scriptSrc, retriesLeft, configRequests, configListener,
                   configTimer, loadScriptCalls, loadAttempts>>
    /\ IF valid
       THEN /\ Initialize(mergedConfig)
            /\ initializeCalls' = initializeCalls + 1
            /\ loaderPc' = "done"
            /\ coreSdkPromise' = "resolved"
            /\ UNCHANGED sdkInitializationError
       ELSE /\ InitFails
            /\ last' = [op |-> "invalidScript"]
            /\ UNCHANGED <<hasParent, sdkInstance, configVars, transportVars,
                           listenerVars, closures, moduleVars, initializeCalls>>

\* script.onerror: retry after a second while retries are left, else reject
ScriptError ==
    /\ loaderPc = "loading"
    /\ IF retriesLeft > 0
       THEN /\ loaderPc' = "retryWait"
            /\ UNCHANGED <<coreSdkPromise, sdkInitializationError>>
       ELSE InitFails
    /\ last' = [op |-> "scriptError"]
    /\ UNCHANGED <<initCalled, initConfigOptions, platformConfig, mergedConfig,
                   scriptSrc, retriesLeft, configRequests, configListener,
                   configTimer, loadScriptCalls, loadAttempts, initializeCalls>>
    /\ UNCHANGED <<hasParent, sdkInstance, configVars, transportVars, listenerVars,
                   closures, moduleVars>>

\* a retry that does not count down
RetryTimerKeepsCount ==
    /\ loaderPc = "retryWait"
    /\ loaderPc' = "loading"
    /\ retriesLeft' = retriesLeft
    /\ loadAttempts' = loadAttempts + 1
    /\ last' = [op |-> "retry"]
    /\ UNCHANGED <<initCalled, coreSdkPromise, sdkInitializationError,
                   initConfigOptions, platformConfig, mergedConfig, scriptSrc,
                   configRequests, configListener, configTimer, loadScriptCalls,
                   initializeCalls>>
    /\ UNCHANGED <<hasParent, sdkInstance, configVars, transportVars, listenerVars,
                   closures, moduleVars>>


\* the retry timer: loadScript(src, retriesLeft - 1)
RetryTimer ==
    /\ loaderPc = "retryWait"
    /\ loaderPc' = "loading"
    /\ retriesLeft' = retriesLeft - 1
    /\ loadAttempts' = loadAttempts + 1
    /\ last' = [op |-> "retry"]
    /\ UNCHANGED <<initCalled, coreSdkPromise, sdkInitializationError,
                   initConfigOptions, platformConfig, mergedConfig, scriptSrc,
                   configRequests, configListener, configTimer, loadScriptCalls,
                   initializeCalls>>
    /\ UNCHANGED <<hasParent, sdkInstance, configVars, transportVars, listenerVars,
                   closures, moduleVars>>

\* ------------------------------------------------------------- inputs
PlatformOrigin == "https://platform.example"
OtherOrigin == "https://other.example"

LoggedIn == UserSession(TRUE, Str("token"))
TokenOnly == UserSession(FALSE, Str("token"))
NoToken == UserSession(TRUE, Str(""))
LoggedOut == UserSession(FALSE, Null)

\* the configurations the loader hands to ArcaidCore.initialize
InitialConfigs ==
    { Merge(Merge(g, o), u) :
        g \in {<<>>, [x \in {"gameId"} |-> Str("game1")]},
        o \in {<<>>, [x \in {"platformOrigin"} |-> Str(PlatformOrigin)]},
        u \in {<<>>} \cup {[x \in {"userSession"} |-> v] : v \in {LoggedIn, TokenOnly}} }

GET_PLAYER_RESPONSE == <<"GET", "PLAYER", "RESPONSE">>
BET_FAILED == <<"BET", "FAILED">>
BET_ERROR_RESPONSE == <<"BET", "ERROR", "RESPONSE">>
BET_ERROR == <<"BET", "ERROR">>
GET_ERRORS_RESPONSE == <<"GET", "ERRORS", "RESPONSE">>

\* an event: a message of the given origin and source
Event(origin, source, type, messageId, payload) ==
    [origin |-> origin,
     data |-> [source |-> source, type |-> type, messageId |-> messageId,
               payload |-> payload]]

FromPlatform(type, messageId, payload) ==
    Event(PlatformOrigin, "ARCAID_PLATFORM", type, messageId, payload)

\* responses, with or without the id of a request
ResponseEvents ==
    { FromPlatform(t, i, p) :
        t \in {GET_PLAYER_RESPONSE, BET_FAILED},
        i \in 0..MaxRequests,
        p \in {EmptyObj, Obj1("error", Str("boom"))} }

\* session updates
SessionPayloads ==
    {Obj1("userSession", v) : v \in {LoggedIn, TokenOnly, NoToken, LoggedOut, Null}}
        \cup {Undefined}

SessionEvents ==
    { FromPlatform(ARCAID_UPDATE_USER_SESSION, i, p) :
        i \in 0..MaxRequests, p \in SessionPayloads }

\* multiplayer events
PlayerMove == Obj2("messageType", Str("PLAYER_MOVE"), "messageData", Str("x1"))

MultiplayerEvents ==
    { FromPlatform(t, i, PlayerMove) :
        t \in {MULTIPLAYER_ROOM_UPDATE_EVENT, MULTIPLAYER_ROOM_ERROR_EVENT,
               MULTIPLAYER_ROOM_MESSAGE_EVENT},
        i \in 0..MaxRequests }

\* messages of another origin or another source
ForeignEvents ==
    { Event(o, s, GET_PLAYER_RESPONSE, i, EmptyObj) :
        o \in {PlatformOrigin, OtherOrigin},
        s \in {"ARCAID_PLATFORM", "ARCAID_SDK"},
        i \in 1..MaxRequests } \ ResponseEvents

\* what the game passes to init: with and without each of the four
\* properties the merge looks at, or nothing at all
DevCoreSdkUrl == "https://dev.example/core.js"
PlatformCoreSdkUrl == "https://cdn.example/core.js"

DevConfigs ==
    { Obj(Merge(Merge(u, v), Merge(a, s))) :
        u \in {<<>>, [x \in {"coreSdkUrl"} |-> Str("")],
               [x \in {"coreSdkUrl"} |-> Str(DevCoreSdkUrl)]},
        v \in {<<>>, [x \in {"sdkVersion"} |-> Str("1.0.0")]},
        a \in {<<>>, [x \in {"arcaidApiBaseUrl"} |-> Str("https://dev.example/api")]},
        s \in {<<>>, [x \in {"userSession"} |-> TokenOnly]} }
      \cup {Undefined}

\* the payloads of the platform's config response; undefined when the
\* response has no payload
PlatformPayloads ==
    { Obj(Merge(Merge(u, v), Merge(a, s))) :
        u \in {<<>>, [x \in {"coreSdkUrl"} |-> Str(PlatformCoreSdkUrl)]},
        v \in {<<>>, [x \in {"sdkVersion"} |-> Str("2.0.0")]},
        a \in {<<>>, [x \in {"arcaidApiBaseUrl"} |-> Str("https://api.example")]},
        s \in {[x \in {"gameId"} |-> Str("game1")]} \cup
              {[x \in {"gameId", "userSession"} |->
                   IF x = "gameId" THEN Str("game1") ELSE w] : w \in {LoggedIn, Null}} }
      \cup {Undefined}

\* the data of the message events that reach the loader's listener
ConfigEvents ==
    { [type |-> ARCAID_PLATFORM_CONFIG_RESPONSE, sameId |-> TRUE, payload |-> p] :
        p \in PlatformPayloads }
      \cup { [type |-> ARCAID_PLATFORM_CONFIG_RESPONSE, sameId |-> FALSE,
              payload |-> EmptyObj],
             [type |-> GET_PLAYER_RESPONSE, sameId |-> TRUE, payload |-> EmptyObj] }

\* ----------------------------------------------------- specifications
\* Every specification runs the same handlers; each draws the inputs of
\* one concern (transport, classification, routing, readiness).

\* configurations with a game id and no session
PlainConfigs ==
    { c \in InitialConfigs : "gameId" \in DOMAIN c /\ "userSession" \notin DOMAIN c }

\* the page calls ArcaidCore.initialize itself, the loader staying idle
Construct == \E c \in PlainConfigs : Initialize(c) /\ UNCHANGED loaderVars
Request == RequestParent(GET_PLAYER_REQUEST, EmptyObj)
Timeout == \E i \in MessageIds : TimeoutFire(i)
Response == \E e \in ResponseEvents : WindowMessage(e)
Foreign == \E e \in ForeignEvents : WindowMessage(e)

\* transport: requests, their responses in any order, their timeouts
Next ==
    \/ Construct
    \/ Request
    \/ Timeout
    \/ Response
    \/ Foreign

Spec == Init /\ [][Next]_vars

\* classification: the first request is answered by every type with every
\* payload
ClassifyTypes ==
    {GET_PLAYER_RESPONSE, BET_FAILED, BET_ERROR_RESPONSE, BET_ERROR,
     GET_ERRORS_RESPONSE, MULTIPLAYER_ROOM_ERROR_EVENT, <<"FAILED">>, NoType}

ClassifyPayloads ==
    {Undefined, Str("oops"), EmptyObj,
     Obj1("error", Null), Obj1("error", Undefined), Obj1("error", Str("boom")),
     Obj1("error", Str("")), Obj1("error", Bool(FALSE)), Obj1("message", Str("why")),
     Obj2("error", Str("boom"), "message", Str("why"))}

ClassifyEvents ==
    { FromPlatform(t, i, p) :
        t \in ClassifyTypes, i \in {0, 1}, p \in ClassifyPayloads }

ConstructOne ==
    /\ Initialize([x \in {"gameId", "platformOrigin"} |->
                      IF x = "gameId" THEN Str("game1") ELSE Str(PlatformOrigin)])
    /\ UNCHANGED loaderVars
Classified == \E e \in ClassifyEvents : WindowMessage(e)

NextClassify ==
    \/ ConstructOne
    \/ Request
    \/ Classified

SpecClassify == Init /\ [][NextClassify]_vars

\* readiness: every initial configuration, session updates with and without
\* the id of a request
SessionConfigs == { c \in InitialConfigs : "gameId" \in DOMAIN c }
ConstructSession == \E c \in SessionConfigs : Initialize(c) /\ UNCHANGED loaderVars
SessionUpdate == \E e \in SessionEvents : WindowMessage(e)

NextReady ==
    \/ ConstructSession
    \/ Request
    \/ SessionUpdate

SpecReady == Init /\ [][NextReady]_vars

\* routing: session updates and multiplayer events with and without the id
\* of a request, with listeners registered
RoutedEvents ==
    MultiplayerEvents \cup
    { FromPlatform(ARCAID_UPDATE_USER_SESSION, i, Obj1("userSession", LoggedIn)) :
        i \in 0..MaxRequests }

Routed == \E e \in RoutedEvents : WindowMessage(e)
SubscribeRoom ==
    \/ OnRoomUpdate("cb1")
    \/ OnRoomError("cb1")
    \/ OnMessage(Str("PLAYER_MOVE"), "cb1")

NextRouting ==
    \/ ConstructOne
    \/ Request
    \/ Routed
    \/ SubscribeRoom

SpecRouting == Init /\ [][NextRouting]_vars

\* the loader: init called any number of times with any configuration, the
\* handshake answered or timing out, the script loading or failing
CallInit == \E c \in DevConfigs : ArcaidInit(c)
ConfigMessage == \E e \in ConfigEvents : configListener /\ LoaderMessage(e)
ScriptLoads == \E valid \in BOOLEAN : ScriptLoaded(valid)

NextLoader ==
    \/ CallInit
    \/ ConfigMessage
    \/ HandshakeTimeout
    \/ ScriptLoads
    \/ ScriptError
    \/ RetryTimer

SpecLoader == Init /\ [][NextLoader]_vars

\* bets: every combination of room and amount, with and without a game id
\* in the configuration, the requests answered or timing out
BET_RESPONSE == <<"BET", "RESPONSE">>

BetConfigs ==
    { [x \in {"platformOrigin"} |-> Str(PlatformOrigin)],
      [x \in {"gameId", "platformOrigin"} |->
          IF x = "gameId" THEN Str("game1") ELSE Str(PlatformOrigin)] }

BetRooms == {Str("room1"), Str(""), Undefined}
BetAmounts == {Num(5), Num(0), Num(-5), NaN, Str("5"), Undefined}

\* the platform answers the first bet
BetEvents ==
    { FromPlatform(t, i, p) :
        t \in {BET_RESPONSE, BET_FAILED},
        i \in {1},
        p \in {Obj1("success", Bool(TRUE)), Obj1("error", Str("boom"))} }

ConstructBet == \E c \in BetConfigs : Initialize(c) /\ UNCHANGED loaderVars
Bet == \E r \in BetRooms, a \in BetAmounts : MakeBet(r, a, Str("stake"))
BetAnswered == \E e \in BetEvents : WindowMessage(e)

NextBet ==
    \/ ConstructBet
    \/ Bet
    \/ Timeout
    \/ BetAnswered

SpecBet == Init /\ [][NextBet]_vars

\* rooms: the three room operations, answered with and without a room, by
\* a failure, or timing out
MULTIPLAYER_ROOM_RESPONSE == <<"MULTIPLAYER", "ROOM", "RESPONSE">>
MULTIPLAYER_ROOM_FAILED == <<"MULTIPLAYER", "ROOM", "FAILED">>
Room1 == Obj1("id", Str("room1"))

RoomPayloads ==
    {Undefined, EmptyObj, Obj1("room", Null), Obj1("room", Room1)}

\* the platform answers the first two room requests
RoomEvents ==
    { FromPlatform(MULTIPLAYER_ROOM_RESPONSE, i, p) :
        i \in {1, 2}, p \in RoomPayloads }
      \cup { FromPlatform(MULTIPLAYER_ROOM_FAILED, 1, EmptyObj) }

RoomAnswered == \E e \in RoomEvents : WindowMessage(e)
Create == CreateRoom(Str("duel"), EmptyObj)
Join == JoinRoom(Str("room1"), EmptyObj)
Rejoin == Reconnect(Str("token1"))

NextRooms ==
    \/ ConstructOne
    \/ Create
    \/ Join
    \/ Rejoin
    \/ Timeout
    \/ RoomAnswered

SpecRooms == Init /\ [][NextRooms]_vars

\* room messages sent by the game, acknowledged, refused or timing out
MULTIPLAYER_SEND_ROOM_MESSAGE_RESPONSE ==
    <<"MULTIPLAYER", "SEND", "ROOM", "MESSAGE", "RESPONSE">>

SendEvents ==
    { FromPlatform(MULTIPLAYER_SEND_ROOM_MESSAGE_RESPONSE, i, p) :
        i \in 1..MaxRequests, p \in {EmptyObj, Obj1("error", Str("boom"))} }

SendMove == Send(Str("PLAYER_MOVE"), Str("x1"))
SendAnswered == \E e \in SendEvents : WindowMessage(e)

NextSend ==
    \/ ConstructOne
    \/ SendMove
    \/ Timeout
    \/ SendAnswered

SpecSend == Init /\ [][NextSend]_vars

\* listeners: two callbacks registered with and unsubscribed from the five
\* registries in any order, each closure called once or again, and the
\* five events delivered without the id of a request
Callbacks == {"cb1", "cb2"}
MessageKeys == {Str("PLAYER_MOVE"), Str("*")}
RoomState == Obj1("timeLeft", Str("30"))

RoomMessages ==
    { Obj2("messageType", t, "messageData", Str("x1")) :
        t \in {Str("PLAYER_MOVE"), Str("CHAT"), Str("*")} }
      \cup {Obj1("messageData", Str("x1")), Undefined}

ListenerEvents ==
    { FromPlatform(t, 0, RoomState) :
        t \in {MULTIPLAYER_ROOM_UPDATE_EVENT, MULTIPLAYER_GAME_STARTED_EVENT,
               MULTIPLAYER_GAME_FINISHED_EVENT, MULTIPLAYER_ROOM_ERROR_EVENT} }
      \cup { FromPlatform(MULTIPLAYER_ROOM_MESSAGE_EVENT, 0, p) : p \in RoomMessages }

Subscribe ==
    \E cb \in Callbacks :
        \/ OnRoomUpdate(cb)
        \/ OnGameStarted(cb)
        \/ OnGameFinished(cb)
        \/ OnRoomError(cb)
        \/ \E t \in MessageKeys : OnMessage(t, cb)

Unsubscribe ==
    \E cb \in Callbacks, stale \in BOOLEAN :
        \/ OffRoomUpdate(cb, stale)
        \/ OffGameStarted(cb, stale)
        \/ OffGameFinished(cb, stale)
        \/ OffRoomError(cb, stale)
        \/ \E t \in MessageKeys : OffMessage(t, cb, stale)

Delivered == \E e \in ListenerEvents : WindowMessage(e)

NextListeners ==
    \/ ConstructOne
    \/ Subscribe
    \/ Unsubscribe
    \/ Delivered

SpecListeners == Init /\ [][NextListeners]_vars

\* inbound messages of every origin and source, with and without a type,
\* with and without the id of a request, while a request is outstanding
\* and a listener is registered
OriginConfigs ==
    { [x \in {"gameId"} |-> Str("game1")],
      [x \in {"gameId", "platformOrigin"} |->
          IF x = "gameId" THEN Str("game1") ELSE Str("*")],
      [x \in {"gameId", "platformOrigin"} |->
          IF x = "gameId" THEN Str("game1") ELSE Str(PlatformOrigin)] }

InboundEvents ==
    { Event(o, s, t, i, p) :
        o \in {PlatformOrigin, OtherOrigin},
        s \in {"ARCAID_PLATFORM", "ARCAID_SDK"},
        t \in {NoType, GET_PLAYER_RESPONSE, ARCAID_UPDATE_USER_SESSION,
               MULTIPLAYER_ROOM_UPDATE_EVENT},
        i \in {0, 1},
        p \in {Obj1("userSession", LoggedIn), Obj1("error", Str("boom"))} }

ConstructOrigin == \E c \in OriginConfigs : Initialize(c) /\ UNCHANGED loaderVars
Inbound == \E e \in InboundEvents : WindowMessage(e)
SubscribeUpdate == OnRoomUpdate("cb1")

NextInbound ==
    \/ ConstructOrigin
    \/ Request
    \/ SubscribeUpdate
    \/ Inbound

SpecInbound == Init /\ [][NextInbound]_vars

\* the user's state: instances built without a session, with a session
\* without token and with a complete session; getUserState called at any
\* moment; session updates that log the user in and out
WalletSession ==
    Obj([k \in {"isLoggedIn", "sessionToken", "userWalletAddress"} |->
            CASE k = "isLoggedIn" -> Bool(TRUE)
              [] k = "sessionToken" -> Str("token")
              [] OTHER -> Str("0xABCDEF12")])

AuthConfigs ==
    { With([x \in {"gameId"} |-> Str("game1")], "userSession", v) :
        v \in {NoToken, WalletSession} }
      \cup { [x \in {"gameId"} |-> Str("game1")] }

AuthEvents ==
    { FromPlatform(ARCAID_UPDATE_USER_SESSION, 0, Obj1("userSession", v)) :
        v \in {WalletSession, LoggedIn, TokenOnly, NoToken, LoggedOut, Null} }

ConstructAuth == \E c \in AuthConfigs : Initialize(c) /\ UNCHANGED loaderVars
AuthUpdate == \E e \in AuthEvents : WindowMessage(e)

NextAuth ==
    \/ ConstructAuth
    \/ GetUserState
    \/ AuthUpdate

SpecAuth == Init /\ [][NextAuth]_vars

\* the remaining operations of the auth, wallet, multiplayer and stats
\* modules, the first request answered with and without a payload, with
\* and without success and rooms, by a failure, or timing out
OPERATION_RESPONSE == <<"OPERATION", "RESPONSE">>
OPERATION_FAILED == <<"OPERATION", "FAILED">>

OperationPayloads ==
    {Undefined, EmptyObj, Obj1("success", Bool(TRUE)),
     Obj2("success", Bool(FALSE), "error", Null),
     Obj2("success", Bool(TRUE), "rooms", Arr(<<Room1>>))}

OperationEvents ==
    { FromPlatform(OPERATION_RESPONSE, 1, p) : p \in OperationPayloads }
      \cup { FromPlatform(OPERATION_FAILED, 1, EmptyObj) }

Operation ==
    \/ GetPlayer
    \/ Login
    \/ GetUserBalance
    \/ LeaveRoom
    \/ GetAvailableRooms(Str("duel"))
    \/ StartGame
    \/ AddUserInput(Str("x1"), Str("room1"))

Track == TrackEvent(Str("level_complete"), EmptyObj)
OperationAnswered == \E e \in OperationEvents : WindowMessage(e)

NextOperations ==
    \/ ConstructOne
    \/ Operation
    \/ Track
    \/ Timeout
    \/ OperationAnswered

SpecOperations == Init /\ [][NextOperations]_vars

\* session updates that bring a whole session, a part of one, other
\* fields or nothing, with and without the id of a request, while a
\* request is outstanding and a listener is registered
ChunkConfigs ==
    { [x \in {"gameId", "platformOrigin"} |->
          IF x = "gameId" THEN Str("game1") ELSE Str(PlatformOrigin)],
      [x \in {"gameId", "platformOrigin", "userSession"} |->
          CASE x = "gameId" -> Str("game1")
            [] x = "platformOrigin" -> Str(PlatformOrigin)
            [] OTHER -> WalletSession] }

Chunks ==
    {Obj1("userSession", Obj1("isLoggedIn", Bool(FALSE))),
     Obj1("userSession", LoggedIn),
     Obj2("gameId", Str("game2"), "theme", Str("dark")),
     EmptyObj, Undefined}

ChunkEvents ==
    { FromPlatform(ARCAID_UPDATE_USER_SESSION, i, p) : i \in {0, 1}, p \in Chunks }

ConstructChunk == \E c \in ChunkConfigs : Initialize(c) /\ UNCHANGED loaderVars
ChunkArrives == \E e \in ChunkEvents : WindowMessage(e)

NextSession ==
    \/ ConstructChunk
    \/ Request
    \/ SubscribeUpdate
    \/ ChunkArrives

SpecSession == Init /\ [][NextSession]_vars

\* the registries over time: callbacks registered and unsubscribed while
\* requests are made, answered and time out, events are delivered and the
\* session is updated
RegistryEvents ==
    { FromPlatform(MULTIPLAYER_ROOM_UPDATE_EVENT, i, RoomState) : i \in {0, 1} }
      \cup { FromPlatform(MULTIPLAYER_ROOM_MESSAGE_EVENT, 0, PlayerMove),
             FromPlatform(ARCAID_UPDATE_USER_SESSION, 0, Obj1("userSession", LoggedIn)),
             FromPlatform(GET_PLAYER_RESPONSE, 1, EmptyObj) }

SubscribeSome ==
    \E cb \in Callbacks :
        \/ OnRoomUpdate(cb)
        \/ OnMessage(Str("PLAYER_MOVE"), cb)

UnsubscribeSome ==
    \E cb \in Callbacks, stale \in BOOLEAN :
        \/ OffRoomUpdate(cb, stale)
        \/ OffMessage(Str("PLAYER_MOVE"), cb, stale)

RegistryEvent == \E e \in RegistryEvents : WindowMessage(e)

NextRegistry ==
    \/ ConstructOne
    \/ SubscribeSome
    \/ UnsubscribeSome
    \/ Request
    \/ Timeout
    \/ RegistryEvent

SpecRegistry == Init /\ [][NextRegistry]_vars

\* independence of the registries: callbacks registered at any of the five
\* registries, a request outstanding, and the four plain events and an
\* event of a type the module does not know delivered without a request id
MULTIPLAYER_PLAYER_JOINED_EVENT == <<"MULTIPLAYER", "PLAYER", "JOINED", "EVENT">>

PlainEvents ==
    { FromPlatform(t, 0, RoomState) :
        t \in {MULTIPLAYER_ROOM_UPDATE_EVENT, MULTIPLAYER_GAME_STARTED_EVENT,
               MULTIPLAYER_GAME_FINISHED_EVENT, MULTIPLAYER_ROOM_ERROR_EVENT,
               MULTIPLAYER_PLAYER_JOINED_EVENT} }

PlainEvent == \E e \in PlainEvents : WindowMessage(e)

NextIndependent ==
    \/ ConstructOne
    \/ Subscribe
    \/ Request
    \/ PlainEvent

SpecIndependent == Init /\ [][NextIndependent]_vars

\* envelopes: instances built with and without an origin and a game id,
\* requests made before and after session updates whose payloads carry an
\* origin, a game id or a session, sent from the platform's origin and
\* from another one
EnvelopeConfigs ==
    { [x \in {"gameId", "platformOrigin"} |->
          IF x = "gameId" THEN Str("game1") ELSE Str(PlatformOrigin)],
      [x \in {"gameId"} |-> Str("game1")],
      [x \in {"platformOrigin"} |-> Str(PlatformOrigin)] }

EnvelopeChunks ==
    {Obj1("platformOrigin", Str(OtherOrigin)),
     Obj1("platformOrigin", Str("")),
     Obj1("gameId", Str("game2")),
     Obj1("userSession", LoggedIn)}

EnvelopeEvents ==
    { Event(o, "ARCAID_PLATFORM", ARCAID_UPDATE_USER_SESSION, 0, p) :
        o \in {PlatformOrigin, OtherOrigin}, p \in EnvelopeChunks }

ConstructEnvelope == \E c \in EnvelopeConfigs : Initialize(c) /\ UNCHANGED loaderVars
EnvelopeUpdate == \E e \in EnvelopeEvents : WindowMessage(e)

NextEnvelope ==
    \/ ConstructEnvelope
    \/ Request
    \/ EnvelopeUpdate

SpecEnvelope == Init /\ [][NextEnvelope]_vars

\* the handshake: one init, then messages of the response type and of
\* another type, with the request's id and with another, and the timeout,
\* at any time before and after the handshake is settled, while the script
\* loads
HandshakeEvents ==
    { [type |-> t, sameId |-> b, payload |-> Obj1("coreSdkUrl", Str(PlatformCoreSdkUrl))] :
        t \in {ARCAID_PLATFORM_CONFIG_RESPONSE, GET_PLAYER_RESPONSE}, b \in BOOLEAN }
      \cup { [type |-> ARCAID_PLATFORM_CONFIG_RESPONSE, sameId |-> TRUE,
              payload |-> EmptyObj] }

InitPlain == ArcaidInit(EmptyObj)
HandshakeMessage == \E e \in HandshakeEvents : LoaderMessage(e)

NextHandshake ==
    \/ InitPlain
    \/ HandshakeMessage
    \/ HandshakeTimeout
    \/ ScriptLoads
    \/ ScriptError
    \/ RetryTimer

SpecHandshake == Init /\ [][NextHandshake]_vars

\* start-up: init in a frame or a top window, the handshake answered with
\* a configuration without a session or timing out, the script loading
\* and defining ArcaidCore, requests made, and session updates arriving
\* from the platform at any time, also before the instance exists
StartupSessions == {LoggedIn, NoToken, LoggedOut}

StartupEvents ==
    { FromPlatform(ARCAID_UPDATE_USER_SESSION, 0, Obj1("userSession", u)) :
        u \in StartupSessions }

ConfigArrives ==
    LoaderMessage([type |-> ARCAID_PLATFORM_CONFIG_RESPONSE, sameId |-> TRUE,
                   payload |-> Obj1("gameId", Str("game1"))])
CoreLoads == ScriptLoaded(TRUE)
SessionArrives == \E e \in StartupEvents : WindowMessage(e)

NextStartup ==
    \/ InitPlain
    \/ ConfigArrives
    \/ HandshakeTimeout
    \/ CoreLoads
    \/ Request
    \/ Timeout
    \/ SessionArrives

\* the handshake's timer and the request timers run, and the script loads
SpecStartup ==
    /\ Init
    /\ [][NextStartup]_vars
    /\ WF_vars(HandshakeTimeout)
    /\ WF_vars(CoreLoads)
    /\ \A i \in MessageIds : WF_vars(TimeoutFire(i))

\* throwing listeners: a callback that returns and one that throws,
\* registered in either order for room updates and for room messages
\* under a type and under "*", a request outstanding, events delivered
ThrowingCallbacks == {"cb1", "thrower"}

ThrowingEvents ==
    { FromPlatform(MULTIPLAYER_ROOM_UPDATE_EVENT, 0, RoomState),
      FromPlatform(MULTIPLAYER_ROOM_MESSAGE_EVENT, 0, PlayerMove) }

SubscribeThrowing ==
    \E cb \in ThrowingCallbacks :
        \/ OnRoomUpdate(cb)
        \/ \E t \in MessageKeys : OnMessage(t, cb)

ThrowingEvent == \E e \in ThrowingEvents : WindowMessage(e)

NextThrowing ==
    \/ ConstructOne
    \/ SubscribeThrowing
    \/ Request
    \/ ThrowingEvent

SpecThrowing == Init /\ [][NextThrowing]_vars

\* the timers of the browser's event loop eventually run
FairSpec == Spec /\ \A i \in MessageIds : WF_vars(TimeoutFire(i))

\* ------------------------------------------------------------- claims
Settled(i) == promise[i].state \in {"resolved", "rejected"}

\* C1: a request's deferred is settled at most once: resolve/reject is
\* called on it at most once, and once it is settled no later timeout or
\* response changes its promise, calls its deferred again or puts it back
\* into the pending table.
C1_SettledAtMostOnce ==
    [][\A i \in MessageIds :
          /\ settleCalls'[i] <= 1
          /\ Settled(i) =>
                /\ promise'[i] = promise[i]
                /\ settleCalls'[i] = settleCalls[i]
                /\ i \notin pendingRequests']_vars

\* request 1 was resolved by a response and its timer has fired since;
\* request 2 was rejected by its timeout and a response carrying its id
\* has just been handled
C1_Witness ==
    /\ MaxRequests >= 2
    /\ promise[1].state = "resolved" /\ 1 \notin timers
    /\ promise[2] = [state |-> "rejected", value |-> ErrTimeout(GET_PLAYER_REQUEST, 2)]
    /\ last.op = "message" /\ last.route # "dropped"
    /\ last.event.data.messageId = 2

\* C2: every request that is pending is eventually settled (resolved or
\* rejected), given that scheduled timeouts eventually fire.
C2_EventuallySettled ==
    \A i \in MessageIds : (promise[i].state = "pending") ~> Settled(i)

\* a request that no response answered has been rejected by its timeout
C2_Witness ==
    \E i \in MessageIds :
        /\ last = [op |-> "timeout", messageId |-> i]
        /\ promise[i].state = "rejected"
        /\ promise[i].value = ErrTimeout(TypeOfRequest(i), i)

\* the request a step is about
CarriedId(l) ==
    IF l.op \in {"request", "timeout"} THEN l.messageId
    ELSE IF l.op = "message" THEN l.event.data.messageId ELSE 0

\* C3: a response or a timeout touches only the request whose messageId it
\* carries: the promise, the settle calls, the table entry and the timer of
\* every other request stay as they were; and an accepted response with a
\* type that matches a pending request settles that request.
C3_OnlyOwnRequest ==
    [][/\ \A j \in MessageIds :
             j # CarriedId(last') =>
                /\ promise'[j] = promise[j]
                /\ settleCalls'[j] = settleCalls[j]
                /\ (j \in pendingRequests') = (j \in pendingRequests)
                /\ (j \in timers') = (j \in timers)
       /\ (last'.op = "message" /\ last'.route = "response" /\ last'.outcome # "throw")
             => /\ last'.event.data.messageId \in pendingRequests
                /\ promise'[last'.event.data.messageId].state \in {"resolved", "rejected"}
                /\ last'.event.data.messageId \notin pendingRequests']_vars

\* with requests 1 and 2 outstanding, the response to 2 came first and
\* resolved it, and 1 is still pending
C3_Witness ==
    /\ MaxRequests >= 2
    /\ last.op = "message" /\ last.route = "response"
    /\ last.event.data.messageId = 2
    /\ promise[2].state = "resolved"
    /\ promise[1].state = "pending" /\ 1 \in pendingRequests /\ 1 \in timers

\* C6: without a parent window every request is rejected at once with "No
\* parent window.", nothing is posted, no timeout is scheduled and the
\* pending table holds no entry.
C6_NoParentRejects ==
    ~hasParent =>
        /\ pendingRequests = {}
        /\ timers = {}
        /\ posted = {}
        /\ \A i \in 1..nextId :
              /\ promise[i] = [state |-> "rejected", value |-> ErrMsg("No parent window.")]
              /\ settleCalls[i] = 1

\* a request has just been made in a window without a parent
C6_Witness ==
    ~hasParent /\ last.op = "request" /\ promise[last.messageId].state = "rejected"

\* the message just handled was accepted and carried the id of a request
\* that was pending when it arrived (read in the state before the step)
AnsweredPending ==
    /\ last'.op = "message"
    /\ Accepted(last'.event)
    /\ Matches(last'.event.data)

\* C4: an accepted message that matches a pending request and whose payload
\* has an error that is neither null nor undefined rejects the request with
\* an Error made of that error, whatever the type (a missing type
\* included), and removes the entry; so no promise is ever resolved with a
\* payload that carries such an error.
C4_PayloadErrorRejects ==
    [][/\ (AnsweredPending /\ PayloadSignalsError(last'.event.data.payload)) =>
             /\ promise'[last'.event.data.messageId] =
                   [state |-> "rejected",
                    value |-> ErrMsg(StringOf(last'.event.data.payload.f["error"]))]
             /\ last'.event.data.messageId \notin pendingRequests'
       /\ \A i \in MessageIds :
             promise'[i].state = "resolved" => ~PayloadSignalsError(promise'[i].value)]_vars

\* a response of a type without error suffix, carrying { error: "boom" },
\* has rejected request 1 with Error("boom")
C4_Witness ==
    /\ last.op = "message" /\ last.route = "response"
    /\ last.event.data.type = GET_PLAYER_RESPONSE
    /\ last.event.data.payload = Obj1("error", Str("boom"))
    /\ last.event.data.messageId = 1
    /\ promise[1] = [state |-> "rejected", value |-> ErrMsg("boom")]

\* type ends in _ERROR, _FAILED or _ERROR_RESPONSE
EndsInErrorSuffix(type) ==
    \/ EndsWithWords(type, <<"ERROR">>)
    \/ EndsWithWords(type, <<"FAILED">>)
    \/ EndsWithWords(type, <<"ERROR", "RESPONSE">>)

\* C5 (as claimed): an accepted message with a type that matches a pending
\* request and whose payload signals no error resolves the request with the
\* raw payload when the type ends in none of _ERROR, _FAILED and
\* _ERROR_RESPONSE, and rejects it when the type ends in one of them.
C5_SuffixDecides ==
    [][(/\ AnsweredPending
        /\ last'.event.data.type # NoType
        /\ ~PayloadSignalsError(last'.event.data.payload)) =>
           IF EndsInErrorSuffix(last'.event.data.type)
           THEN promise'[last'.event.data.messageId].state = "rejected"
           ELSE promise'[last'.event.data.messageId] =
                   [state |-> "resolved", value |-> last'.event.data.payload]]_vars

\* C7: an accepted message carrying the id of a pending request is consumed
\* as the response: the configuration, the auth module's configuration and
\* the ready promise are unchanged and no listener is called, whatever its
\* type.
C7_ResponseNotRouted ==
    [][AnsweredPending =>
          /\ UNCHANGED configVars
          /\ last'.calls = <<>>]_vars

\* request 1 was resolved with a session update's payload while the gate is
\* still pending, and a MULTIPLAYER_ROOM_UPDATE_EVENT carrying the id of
\* request 2 has just been consumed with a room-update listener registered
C7_Witness ==
    /\ MaxRequests >= 2
    /\ promise[1] = [state |-> "resolved", value |-> Obj1("userSession", LoggedIn)]
    /\ readyPromise = "pending"
    /\ "userSession" \notin DOMAIN internalConfig
    /\ last.op = "message" /\ last.route = "response"
    /\ last.event.data.type = MULTIPLAYER_ROOM_UPDATE_EVENT
    /\ last.event.data.messageId = 2
    /\ promise[2].state = "resolved"
    /\ Len(onRoomUpdateListeners) > 0
    /\ last.calls = <<>>

\* the configuration has a true login flag and a non-empty session token
LoggedInWithToken(config) ==
    LET session == Get(Obj(config), "userSession")
    IN  /\ Get(session, "isLoggedIn") = Bool(TRUE)
        /\ Get(session, "sessionToken").tag = "string"
        /\ Get(session, "sessionToken") # Str("")

\* the configuration has a session token that is truthy (for a string:
\* non-empty)
HasToken(config) ==
    Truthy(Get(Get(Obj(config), "userSession"), "sessionToken"))

\* C8 (as claimed): the gate becomes resolved only in a step that leaves a
\* configuration with a true login flag and a non-empty session token.
C8_ResolvedOnlyLoggedIn ==
    [][(readyPromise = "pending" /\ readyPromise' = "resolved") =>
          LoggedInWithToken(internalConfig')]_vars

\* C8 (amended): the gate becomes resolved only in a step (construction or
\* session update) that leaves the instance with a configuration whose
\* session token is non-empty; the login flag is not consulted.
C8_ResolvedOnlyWithToken ==
    [][(readyPromise = "pending" /\ readyPromise' = "resolved") =>
          (sdkInstance' /\ HasToken(internalConfig'))]_vars

\* a session update brought a token with isLoggedIn false and the gate is
\* resolved
C8_Witness ==
    /\ last.op = "message" /\ last.route = "config"
    /\ last.event.data.payload = Obj1("userSession", TokenOnly)
    /\ Get(Obj(internalConfig), "userSession") = TokenOnly
    /\ readyPromise = "resolved"

\* C9: whenever the instance exists and its configuration has a true login
\* flag and a non-empty session token, the gate is resolved (the
\* construction or update that produced the configuration resolved it in
\* the same step).
C9_ResolvedWhenLoggedIn ==
    (sdkInstance /\ LoggedInWithToken(internalConfig)) => readyPromise = "resolved"

\* built without a session, the instance has just merged a session update
\* with a logged-in session and the gate is resolved
C9_Witness ==
    /\ last.op = "message" /\ last.route = "config"
    /\ last.event.data.payload = Obj1("userSession", LoggedIn)
    /\ LoggedInWithToken(internalConfig)
    /\ readyPromise = "resolved"

\* C10: a resolved gate stays resolved in every later step, and the gate
\* is never rejected.
C10_ResolvedForever ==
    [][/\ readyPromise = "resolved" => readyPromise' = "resolved"
       /\ readyPromise' # "rejected"]_vars

\* a session update has cleared the userSession and the gate is still
\* resolved
C10_Witness ==
    /\ last.op = "message" /\ last.route = "config"
    /\ Get(Obj(internalConfig), "userSession") = Null
    /\ readyPromise = "resolved"

\* C11: init is idempotent.  A call of init made after the first one, while
\* the initialization is in flight or after it succeeded or failed, returns
\* the promise of the first call and starts nothing: the counts of config
\* requests, loadScript calls, script elements and initialize calls stay as
\* they are, and no run has more than one config request, one loadScript
\* call and one initialize call.
C11_InitOnce ==
    [][/\ (last'.op = "init" /\ initCalled) =>
             /\ last'.returned = "coreSdkPromise"
             /\ UNCHANGED <<coreSdkPromise, loaderPc, configRequests,
                            loadScriptCalls, loadAttempts, initializeCalls>>
       /\ configRequests' <= 1
       /\ loadScriptCalls' <= 1
       /\ initializeCalls' <= 1]_vars

\* init is called again after the instance was built
C11_Witness ==
    /\ last.op = "init"
    /\ loaderPc = "done"
    /\ sdkInstance
    /\ configRequests = 1

\* the merge has run: mergedConfig is what init built
Merged == loadScriptCalls > 0

\* the coreSdkUrl the resolution order asks for; a value is present when it
\* is a non-empty string
ExpectedCoreSdkUrl ==
    LET developers == Get(initConfigOptions, "coreSdkUrl")
        platforms == Get(platformConfig, "coreSdkUrl")
        version == Get(Obj(mergedConfig), "sdkVersion")
    IN  IF Truthy(developers) THEN developers
        ELSE IF Truthy(platforms) THEN platforms
        ELSE DefaultCoreSdkUrl(IF Truthy(version) THEN version ELSE Str("current"))

\* C12: the coreSdkUrl of the merged configuration is the developer's when
\* the developer gave one, else the platform's when the platform gave one,
\* else the default URL for the merged configuration's sdkVersion, or for
\* "current" when it has none; that URL is in the merged configuration
\* before the script is loaded, it is the src of the script, and it is in
\* the configuration the instance is built with.
C12_CoreSdkUrlOrder ==
    Merged =>
        /\ Get(Obj(mergedConfig), "coreSdkUrl") = ExpectedCoreSdkUrl
        /\ scriptSrc = ExpectedCoreSdkUrl
        /\ sdkInstance => Get(Obj(internalConfig), "coreSdkUrl") = ExpectedCoreSdkUrl

\* both sides name a bundle and the developer's is loaded
C12_Witness ==
    /\ loaderPc = "done"
    /\ Get(platformConfig, "coreSdkUrl") = Str(PlatformCoreSdkUrl)
    /\ scriptSrc = Str(DevCoreSdkUrl)
    /\ Get(Obj(internalConfig), "coreSdkUrl") = Str(DevCoreSdkUrl)

\* C13: when the developer's configuration sets arcaidApiBaseUrl (or
\* sdkVersion) and the platform's configuration provides one too, the
\* merged value is the developer's.
C13_DeveloperValueWins ==
    Merged =>
        \A k \in {"arcaidApiBaseUrl", "sdkVersion"} :
            (Truthy(Get(initConfigOptions, k)) /\ Truthy(Get(platformConfig, k)))
                => Get(Obj(mergedConfig), k) = Get(initConfigOptions, k)

\* C14: whenever the platform's configuration has a userSession, the merged
\* configuration's userSession is the platform's, whatever the developer's
\* configuration holds.
C14_PlatformSessionWins ==
    (Merged /\ HasOwn(platformConfig, "userSession")) =>
        /\ Get(Obj(mergedConfig), "userSession") = Get(platformConfig, "userSession")
        /\ sdkInstance =>
              Get(Obj(internalConfig), "userSession") = Get(platformConfig, "userSession")

\* both sides have a userSession and the instance holds the platform's
C14_Witness ==
    /\ loaderPc = "done"
    /\ Get(initConfigOptions, "userSession") = TokenOnly
    /\ Get(platformConfig, "userSession") = LoggedIn
    /\ Get(Obj(internalConfig), "userSession") = LoggedIn

\* a value of type number that is <= 0 (NaN is of type number and is not)
ZeroOrLess(v) == v.tag = "number" /\ "n" \in DOMAIN v /\ v.n <= 0

RoomOutcomeAsClaimed(i) ==
    LET payload == promise[i].value
        room == Get(payload, "room")
    IN  CASE promise[i].state = "resolved" ->
                IF Truthy(payload) /\ Truthy(room)
                THEN opPromise[i] = [state |-> "resolved", value |-> room]
                ELSE /\ opPromise[i].state = "rejected"
                     /\ opPromise[i].value.tag = "error"
                     /\ opPromise[i].value.message # ""
          [] promise[i].state = "rejected" -> opPromise[i] = promise[i]
          [] OTHER -> opPromise[i].state = "pending"

\* C16: createRoom, joinRoom and reconnect reject with a descriptive error
\* when the transport resolves with a payload that is absent or names no
\* room, and otherwise resolve with exactly the room of the payload; a
\* rejection of the transport is passed on unchanged.
C16_RoomOrError ==
    \A i \in MessageIds : caller[i] \in RoomOps => RoomOutcomeAsClaimed(i)

\* one room operation got its room, another an answer without a room
C16_Witness ==
    \E i, j \in MessageIds :
        /\ caller[i] = "createRoom"
        /\ opPromise[i] = [state |-> "resolved", value |-> Room1]
        /\ caller[j] \in RoomOps
        /\ promise[j] = [state |-> "resolved", value |-> EmptyObj]
        /\ opPromise[j].state = "rejected"

\* the members of a registry as a set
AsSet(listeners) == {listeners[i] : i \in 1..Len(listeners)}

\* the callbacks a registry holds, for onMessage under the type key, in
\* the registries all (a value of listenerVars)
RegisteredIn(all, registry, key) ==
    CASE registry = "roomUpdate" -> AsSet(all[1])
      [] registry = "gameStarted" -> AsSet(all[2])
      [] registry = "gameFinished" -> AsSet(all[3])
      [] registry = "roomError" -> AsSet(all[4])
      [] registry = "roomMessage" ->
            IF key \in DOMAIN all[5] THEN AsSet(all[5][key]) ELSE {}

Registered(registry, key) == RegisteredIn(listenerVars, registry, key)

\* how often the calls of the latest task invoked callback with arg
TimesCalled(calls, callback, arg) ==
    Cardinality({i \in 1..Len(calls) : calls[i] = [callback |-> callback, arg |-> arg]})

\* the latest task delivered a room message of a defined type to the module
RoomMessageDelivered ==
    /\ last.op = "message"
    /\ last.route = "multiplayer"
    /\ last.event.data.type = MULTIPLAYER_ROOM_MESSAGE_EVENT
    /\ Get(last.event.data.payload, "messageType") # Undefined

\* C17: when a MULTIPLAYER_ROOM_MESSAGE_EVENT with payload
\* {messageType: T, messageData: D} arrives and matches no pending request,
\* every listener registered with onMessage(T, ...) is invoked with D and
\* every listener registered with onMessage("*", ...) is invoked with the
\* envelope {type: T, data: D}; nothing else is invoked, so listeners of
\* other message types are not.
C17_RoomMessageFanOut ==
    RoomMessageDelivered =>
        LET T == Get(last.event.data.payload, "messageType")
            D == Get(last.event.data.payload, "messageData")
            envelope == Obj2("type", T, "data", D)
        IN  /\ \A cb \in Registered("roomMessage", T) :
                  TimesCalled(last.calls, cb, D) = 1
            /\ \A cb \in Registered("roomMessage", Str("*")) :
                  TimesCalled(last.calls, cb, envelope) = 1
            /\ \A i \in 1..Len(last.calls) :
                  \/ /\ last.calls[i].callback \in Registered("roomMessage", T)
                     /\ last.calls[i].arg = D
                  \/ /\ last.calls[i].callback \in Registered("roomMessage", Str("*"))
                     /\ last.calls[i].arg = envelope

\* a PLAYER_MOVE message reached the PLAYER_MOVE listener and the wildcard
\* listener, each with its own argument
C17_Witness ==
    /\ RoomMessageDelivered
    /\ last.event.data.payload = PlayerMove
    /\ Registered("roomMessage", Str("PLAYER_MOVE")) = {"cb1"}
    /\ Registered("roomMessage", Str("*")) = {"cb2"}
    /\ last.calls = << [callback |-> "cb1", arg |-> Str("x1")],
                       [callback |-> "cb2",
                        arg |-> Obj2("type", Str("PLAYER_MOVE"), "data", Str("x1"))] >>

\* the places a callback can be registered at: the four plain registries
\* and, for onMessage, one per message type
Slots ==
    { <<r, Undefined>> : r \in {"roomUpdate", "gameStarted", "gameFinished", "roomError"} }
      \cup { <<"roomMessage", k>> : k \in MessageKeys \cup {Str("CHAT")} }

\* the registry an event type is dispatched to
RegistryOf(type) ==
    CASE type = MULTIPLAYER_ROOM_UPDATE_EVENT -> "roomUpdate"
      [] type = MULTIPLAYER_GAME_STARTED_EVENT -> "gameStarted"
      [] type = MULTIPLAYER_GAME_FINISHED_EVENT -> "gameFinished"
      [] type = MULTIPLAYER_ROOM_ERROR_EVENT -> "roomError"
      [] type = MULTIPLAYER_ROOM_MESSAGE_EVENT -> "roomMessage"
      [] OTHER -> "none"

\* the callbacks an event delivered to the module matches
MatchedBy(data) ==
    IF RegistryOf(data.type) = "roomMessage"
    THEN IF Get(data.payload, "messageType") = Undefined
         THEN {}
         ELSE Registered("roomMessage", Get(data.payload, "messageType"))
                 \cup Registered("roomMessage", Str("*"))
    ELSE IF RegistryOf(data.type) = "none"
         THEN {}
         ELSE Registered(RegistryOf(data.type), Undefined)

\* C18: for each of onRoomUpdate, onMessage, onGameStarted, onGameFinished
\* and onRoomError, once the unsubscribe function of a registration has
\* been called the callback is not invoked for later matching events, and
\* the other listeners of the registry go on being invoked.  In steps: a
\* call of the unsubscribe function takes the callback out of its registry
\* and leaves every other member and every other registry as it was; a
\* callback enters a registry only by a registration of that callback; and
\* an event invokes the members of its registry, all of them and no others.
C18_UnsubscribedStaysSilent ==
    [][/\ last'.op = "off" =>
             /\ last'.callback \notin
                   RegisteredIn(listenerVars', last'.registry, last'.key)
             /\ \A s \in Slots :
                   Registered(s[1], s[2])' \ {last'.callback}
                      = Registered(s[1], s[2]) \ {last'.callback}
             /\ \A s \in Slots :
                   s # <<last'.registry, last'.key>> =>
                      Registered(s[1], s[2])' = Registered(s[1], s[2])
       /\ \A s \in Slots, cb \in Callbacks :
             (cb \notin Registered(s[1], s[2]) /\ cb \in Registered(s[1], s[2])') =>
                /\ last'.op = "on"
                /\ <<last'.registry, last'.key>> = s
                /\ last'.callback = cb
       /\ (last'.op = "message" /\ last'.route = "multiplayer") =>
             AsSet([i \in 1..Len(last'.calls) |-> last'.calls[i].callback])
                = MatchedBy(last'.event.data)]_vars

\* cb1 was unsubscribed from room updates, cb2 was not, and a room update
\* invoked cb2 alone
C18_Witness ==
    /\ last.op = "message"
    /\ last.event.data.type = MULTIPLAYER_ROOM_UPDATE_EVENT
    /\ Closure("roomUpdate", Undefined, "cb1", TRUE) \in closures
    /\ Closure("roomUpdate", Undefined, "cb2", FALSE) \in closures
    /\ last.calls = << [callback |-> "cb2", arg |-> RoomState] >>

\* C19: unsubscribe is idempotent.  Calling an unsubscribe closure that
\* has been called before changes no listener registry, in every reachable
\* state, also when the same callback has been registered again for the
\* same registry or message type in between.
C19_SecondCallNoOp ==
    [][(last'.op = "off" /\ last'.stale) => UNCHANGED listenerVars]_vars

\* the envelopes posted by the step
NewlyPosted == posted' \ posted

\* C20: send is fire-and-forget.  A call issues exactly one
\* MULTIPLAYER_SEND_ROOM_MESSAGE_REQUEST (one message id, one envelope when
\* there is a parent), and whatever becomes of that request (acknowledged,
\* refused, timed out, no parent) no rejection is left for the caller: the
\* chain send built never ends rejected, a failure is logged instead.
C20_SendFireAndForget ==
    [][/\ (last'.op = "request" /\ last'.caller = "send" /\ nextId' # nextId) =>
             /\ nextId' = nextId + 1
             /\ last'.type = MULTIPLAYER_SEND_ROOM_MESSAGE_REQUEST
             /\ IF hasParent
                THEN /\ Cardinality(NewlyPosted) = 1
                     /\ \A env \in NewlyPosted :
                           /\ env.type = MULTIPLAYER_SEND_ROOM_MESSAGE_REQUEST
                           /\ env.messageId = nextId'
                ELSE NewlyPosted = {}
       /\ \A i \in MessageIds :
             caller'[i] = "send" =>
                /\ opPromise'[i].state # "rejected"
                /\ promise'[i].state = "rejected" <=> i \in warned']_vars

\* a sent message timed out and the failure was logged, not thrown
C20_Witness ==
    /\ last.op = "timeout"
    /\ caller[last.messageId] = "send"
    /\ promise[last.messageId].state = "rejected"
    /\ opPromise[last.messageId].state = "resolved"
    /\ last.messageId \in warned

\* the instance knows a platform origin and it is not the wildcard
KnownOrigin ==
    LET platformOrigin == Get(Obj(internalConfig), "platformOrigin")
    IN  sdkInstance /\ platformOrigin.tag = "string" /\ platformOrigin.s \notin {"", "*"}

\* the step left the transport, the configuration, the registries and the
\* operations' promises alone and called no listener
Ignored ==
    /\ UNCHANGED <<transportVars, configVars, listenerVars, moduleVars>>
    /\ last'.calls = <<>>

\* C21: when the instance's platformOrigin is known and is not the
\* wildcard, an inbound message whose origin differs from it is ignored
\* entirely: it settles no pending request (also when it carries the id of
\* one), changes no configuration and invokes no listener.
C21_OtherOriginIgnored ==
    [][(/\ last'.op = "message"
        /\ KnownOrigin
        /\ Str(last'.event.origin) # Get(Obj(internalConfig), "platformOrigin"))
          => Ignored]_vars

\* a well-formed response carrying the id of the pending request 1 came
\* from another origin: the request is still pending
C21_Witness ==
    /\ last.op = "message"
    /\ last.event = Event(OtherOrigin, "ARCAID_PLATFORM", GET_PLAYER_RESPONSE, 1,
                          Obj1("userSession", LoggedIn))
    /\ Get(Obj(internalConfig), "platformOrigin") = Str(PlatformOrigin)
    /\ 1 \in pendingRequests
    /\ promise[1].state = "pending"
    /\ Len(onRoomUpdateListeners) = 1

\* C22 (as claimed): an inbound message whose source is not
\* "ARCAID_PLATFORM" or that has no type is dropped: it settles no pending
\* request (also when it carries the id of one), changes no configuration,
\* invokes no listener and leaves no caller with an error.
C22_MalformedDropped ==
    [][(/\ last'.op = "message"
        /\ \/ last'.event.data.source # "ARCAID_PLATFORM"
           \/ last'.event.data.type = NoType)
          => Ignored]_vars

\* the step went on to the merge and the script load with an empty
\* platform configuration
ProceededEmpty ==
    /\ platformConfig' = EmptyObj
    /\ mergedConfig' = MergedConfig(initConfigOptions', EmptyObj)
    /\ loaderPc' = "loading"
    /\ loadScriptCalls' = loadScriptCalls + 1

\* C23 (as claimed): the config handshake never makes initialization fail.
\* No step taken while init waits for the config response ends the
\* initialization as failed; the handshake timeout goes on to merge and
\* load with an empty platform configuration; in a top-level window the
\* first init posts no config request and goes on at once with an empty
\* platform configuration.
C23_HandshakeNeverFatal ==
    [][/\ loaderPc = "handshake" =>
             (loaderPc' # "failed" /\ coreSdkPromise' # "rejected")
       /\ last'.op = "handshakeTimeout" => ProceededEmpty
       /\ (last'.op = "init" /\ coreSdkPromise = "null" /\ ~hasParent) =>
             (configRequests' = 0 /\ ProceededEmpty)]_vars

\* the getUserState calls that completed in the step
CompletedNow(i) ==
    /\ i \in 1..Len(userStates')
    /\ userStates'[i].state = "resolved"
    /\ (i > Len(userStates) \/ userStates[i].state = "pending")

\* C24: getUserState never reads the session and never completes before
\* the gate has resolved.  A call completes only in a step that leaves the
\* gate resolved, with the user state of the configuration that step
\* leaves; while the gate is pending every call made is pending.
C24_UserStateAfterGate ==
    [][/\ \A i \in 1..MaxStateCalls :
             CompletedNow(i) =>
                /\ readyPromise' = "resolved"
                /\ userStates'[i].value = UserStateOf(internalConfig')
       /\ readyPromise' = "pending" =>
             \A i \in 1..Len(userStates') : userStates'[i].state = "pending"]_vars

\* a call made while the gate was pending, by an instance whose session
\* had a login flag and no token, completed with the user the later
\* session update logged in
C24_Witness ==
    /\ last.op = "message" /\ last.route = "config"
    /\ Len(userStates) >= 1
    /\ userStates[1].gateAtCall = "pending"
    /\ userStates[1].state = "resolved"
    /\ Get(userStates[1].value, "isLoggedIn") = Bool(TRUE)
    /\ Get(userStates[1].value, "userId") = Str("0xABCDEF12")

\* the configuration is one of a user who is not logged in: no session, a
\* false login flag, or no session token
NotLoggedIn(config) ==
    LET session == Get(Obj(config), "userSession")
    IN  \/ session.tag \in {"undefined", "null"}
        \/ Get(session, "isLoggedIn") = Bool(FALSE)
        \/ Get(session, "sessionToken").tag \in {"undefined", "null"}
        \/ Get(session, "sessionToken") = Str("")

\* C25 (as claimed): every getUserState call completes, and for a user who
\* is not logged in it completes with {isLoggedIn: false, userId: null,
\* username: null}.  In steps: a task that leaves nothing scheduled in the
\* event loop leaves no call waiting, and a call that completes while the
\* configuration is that of a user who is not logged in completes with the
\* logged-out state.
C25_UserStateCompletes ==
    [][/\ timers' = {} =>
             \A i \in 1..Len(userStates') : userStates'[i].state = "resolved"
       /\ \A i \in 1..MaxStateCalls :
             (CompletedNow(i) /\ NotLoggedIn(internalConfig')) =>
                userStates'[i].value = LoggedOutState]_vars

\* the operations the claim lists as passing the transport's outcome on
PlainOps ==
    {"getPlayer", "login", "getUserBalance", "leaveRoom", "startGame",
     "getAvailableRooms", "addUserInput"}

\* C26 (as claimed): each of getPlayer, login, getUserBalance, leaveRoom,
\* startGame, getAvailableRooms and addUserInput settles as the transport
\* settles: it is pending while the request is, rejected with the
\* transport's error exactly when the request is rejected, and resolved
\* when the request is resolved.
C26_SettlesAsTransport ==
    \A i \in MessageIds :
        caller[i] \in PlainOps =>
            /\ opPromise[i].state = promise[i].state
            /\ promise[i].state = "rejected" => opPromise[i] = promise[i]

\* the payload is null or undefined
Missing(v) == v.tag \in {"undefined", "null"}

\* C26 (amended): getPlayer, login and getUserBalance settle exactly as the
\* transport settles; leaveRoom and startGame do too, resolving with
\* undefined.  getAvailableRooms resolves with the payload's rooms, or with
\* [] when the payload has none, and rejects when the transport resolves
\* without a payload.  addUserInput resolves with the payload only when its
\* success is truthy and rejects with an Error otherwise.  Every one of
\* them passes a rejection of the transport on unchanged.
C26_SettlesAsTransportButInput ==
    \A i \in MessageIds :
        caller[i] \in PlainOps =>
            LET payload == promise[i].value
            IN  CASE promise[i].state = "rejected" -> opPromise[i] = promise[i]
                  [] promise[i].state = "pending" -> opPromise[i].state = "pending"
                  [] promise[i].state = "resolved" /\ caller[i] = "addUserInput" ->
                        IF ~Missing(payload) /\ Truthy(Get(payload, "success"))
                        THEN opPromise[i] = promise[i]
                        ELSE /\ opPromise[i].state = "rejected"
                             /\ opPromise[i].value.tag = "error"
                  [] promise[i].state = "resolved" /\ caller[i] = "getAvailableRooms" ->
                        IF Missing(payload)
                        THEN /\ opPromise[i].state = "rejected"
                             /\ opPromise[i].value.tag = "error"
                        ELSE opPromise[i] =
                                [state |-> "resolved",
                                 value |-> IF Truthy(Get(payload, "rooms"))
                                           THEN Get(payload, "rooms") ELSE Arr(<<>>)]
                  [] promise[i].state = "resolved"
                        /\ caller[i] \in {"leaveRoom", "startGame"} ->
                        opPromise[i] = [state |-> "resolved", value |-> Undefined]
                  [] OTHER -> opPromise[i] = promise[i]

\* the transport resolved addUserInput's request with {success: false,
\* error: null} and the operation rejected
C26_Witness ==
    /\ caller[1] = "addUserInput"
    /\ promise[1] = [state |-> "resolved",
                     value |-> Obj2("success", Bool(FALSE), "error", Null)]
    /\ opPromise[1] = [state |-> "rejected", value |-> ErrMsg("Failed to add user input")]

\* C27 (as claimed): trackEvent(eventName, eventData) can be called on the
\* stats module of every instance and returns a promise.
C27_TrackEventCallable ==
    [][last'.op = "trackEvent" => last'.outcome = "promise"]_vars

\* C28: between tasks the pending-request table holds exactly the ids of
\* the requests that were issued and are not settled.  An id enters the
\* table only in the step of its request, which posts it to the parent; it
\* leaves the table only in the step in which the response or the timeout
\* carrying it settles its promise.
C28_TableIsOutstanding ==
    [][/\ pendingRequests' = {i \in 1..nextId' : promise'[i].state = "pending"}
       /\ \A i \in MessageIds :
             (i \notin pendingRequests /\ i \in pendingRequests') =>
                /\ last'.op = "request" /\ last'.messageId = i
                /\ \E env \in posted' \ posted : env.messageId = i
       /\ \A i \in MessageIds :
             (i \in pendingRequests /\ i \notin pendingRequests') =>
                /\ last'.op \in {"message", "timeout"}
                /\ CarriedId(last') = i
                /\ promise[i].state = "pending"
                /\ promise'[i].state \in {"resolved", "rejected"}]_vars

\* the response to request 1 has just resolved it and taken it out of the
\* table, which still holds the unanswered request 2
C28_Witness ==
    /\ MaxRequests >= 2
    /\ last.op = "message" /\ last.route = "response"
    /\ last.event.data.messageId = 1
    /\ promise[1].state = "resolved"
    /\ promise[2].state = "pending"
    /\ pendingRequests = {2}
    /\ timers = {1, 2}

\* the top-level fields of a payload (none when it is not an object)
FieldsOf(chunk) == IF chunk.tag = "object" THEN DOMAIN chunk.f ELSE {}

\* C29: an ARCAID_UPDATE_USER_SESSION message that matches no pending
\* request merges its payload into the configuration one level deep: the
\* configuration has the fields it had and those of the payload; a field
\* the payload lacks keeps its value; a field the payload has takes the
\* payload's value whole (a userSession replaces the previous one, none of
\* whose fields survives); the pending table and the registries are as
\* they were.
C29_ShallowMerge ==
    [][(last'.op = "message" /\ last'.route = "config") =>
          LET chunk == last'.event.data.payload
          IN  /\ DOMAIN internalConfig' = (DOMAIN internalConfig) \cup FieldsOf(chunk)
              /\ \A k \in (DOMAIN internalConfig) \ FieldsOf(chunk) :
                    internalConfig'[k] = internalConfig[k]
              /\ \A k \in FieldsOf(chunk) : internalConfig'[k] = chunk.f[k]
              /\ UNCHANGED <<pendingRequests, listenerVars>>]_vars

\* an instance that held a session with token and wallet address got a
\* userSession of one field: the token and the address are gone, the game
\* id, the pending request and the listener are as before
C29_Witness ==
    /\ last.op = "message" /\ last.route = "config"
    /\ last.event.data.payload = Obj1("userSession", Obj1("isLoggedIn", Bool(FALSE)))
    /\ Get(Obj(internalConfig), "userSession") = Obj1("isLoggedIn", Bool(FALSE))
    /\ Get(Obj(internalConfig), "gameId") = Str("game1")
    /\ readyPromise = "resolved"
    /\ pendingRequests = {1}
    /\ Len(onRoomUpdateListeners) = 1

\* callback cb was registered at slot s and no unsubscribe closure for it
\* there has been called, in the closures all
NeverUnsubscribed(all, s, cb) ==
    /\ Closure(s[1], s[2], cb, FALSE) \in all
    /\ Closure(s[1], s[2], cb, TRUE) \notin all

\* C30: no registry is ever cleared in bulk.  Messages, requests, timeouts
\* and configuration updates leave every registry as it is; a call of an
\* unsubscribe closure takes out at most its own callback; so a callback
\* that was registered and for which no unsubscribe closure has been called
\* is registered after every step, and an event delivered to the module
\* calls every callback registered for it.
C30_NeverBulkCleared ==
    [][/\ last'.op \notin {"on", "off"} => UNCHANGED listenerVars
       /\ last'.op = "off" =>
             \A s \in Slots :
                (Registered(s[1], s[2]) \ {last'.callback}) \subseteq Registered(s[1], s[2])'
       /\ \A s \in Slots, cb \in Callbacks :
             NeverUnsubscribed(closures', s, cb) => cb \in Registered(s[1], s[2])'
       /\ (last'.op = "message" /\ last'.route = "multiplayer") =>
             \A cb \in MatchedBy(last'.event.data) :
                \E i \in 1..Len(last'.calls) : last'.calls[i].callback = cb]_vars

\* cb1 and cb2 listened to PLAYER_MOVE, cb1 was unsubscribed, a request was
\* made and timed out, and the PLAYER_MOVE message that has just arrived
\* was given to cb2
C30_Witness ==
    /\ last.op = "message"
    /\ last.event.data.type = MULTIPLAYER_ROOM_MESSAGE_EVENT
    /\ Closure("roomMessage", Str("PLAYER_MOVE"), "cb1", TRUE) \in closures
    /\ NeverUnsubscribed(closures, <<"roomMessage", Str("PLAYER_MOVE")>>, "cb2")
    /\ promise[1].state = "rejected"
    /\ last.calls = << [callback |-> "cb2", arg |-> Str("x1")] >>

\* the latest task dispatched one of the four plain events, or an event of
\* an unknown MULTIPLAYER_ type, to the module
PlainDispatch(l) ==
    /\ l.op = "message"
    /\ l.route = "multiplayer"
    /\ RegistryOf(l.event.data.type) # "roomMessage"

\* the members of the registry of a plain event type (none for an unknown one)
MembersFor(type) ==
    IF RegistryOf(type) = "none" THEN {} ELSE Registered(RegistryOf(type), Undefined)

\* C31: the five listener registries are independent.  An unsolicited
\* MULTIPLAYER_ROOM_UPDATE_EVENT, MULTIPLAYER_GAME_STARTED_EVENT,
\* MULTIPLAYER_GAME_FINISHED_EVENT or MULTIPLAYER_ROOM_ERROR_EVENT invokes
\* each listener of the corresponding registry exactly once with the event
\* payload and makes no other call, so no listener of another registry is
\* invoked; when that registry is empty, or the MULTIPLAYER_ type is not
\* one the module knows, no call is made; and in every case the event
\* changes no state of the instance and settles nothing.
C31_RegistriesIndependent ==
    [][PlainDispatch(last') =>
          /\ \A cb \in MembersFor(last'.event.data.type) :
                TimesCalled(last'.calls, cb, last'.event.data.payload) = 1
          /\ Len(last'.calls) = Cardinality(MembersFor(last'.event.data.type))
          /\ last'.outcome = "none"
          /\ UNCHANGED <<hasParent, sdkInstance, configVars, transportVars,
                         listenerVars, closures, moduleVars, loaderVars>>]_vars

\* with cb1 listening for room updates and cb2 for started games, a
\* started game invoked cb2 alone
C31_Witness ==
    /\ PlainDispatch(last)
    /\ last.event.data.type = MULTIPLAYER_GAME_STARTED_EVENT
    /\ Registered("roomUpdate", Undefined) = {"cb1"}
    /\ Registered("gameStarted", Undefined) = {"cb2"}
    /\ last.calls = << [callback |-> "cb2", arg |-> RoomState] >>

\* the configuration's field k
ConfigField(config, k) == Get(Obj(config), k)

\* C32: every outbound request envelope is posted to the platform origin
\* the configuration holds when requestParent is called, or to "*" when
\* the configuration holds none (no truthy platformOrigin), and carries
\* source "ARCAID_SDK", the type of the request, a message id that was not
\* used before and is the key of the request's pending entry, and the
\* configuration's gameId, or "" when the configuration holds none (no
\* truthy gameId).  Envelopes are posted by requests only, one per request.
C32_EnvelopeAddressed ==
    [][/\ (last'.op = "request" /\ hasParent) =>
             \E env \in posted' :
                /\ posted' \ posted = {env}
                /\ env.source = "ARCAID_SDK"
                /\ env.type = last'.type
                /\ env.payload = last'.payload
                /\ env.messageId = last'.messageId
                /\ env.messageId \notin {old.messageId : old \in posted}
                /\ env.messageId \notin pendingRequests
                /\ env.messageId \in pendingRequests'
                /\ promise'[env.messageId] = PendingPromise
                /\ env.targetOrigin =
                      IF Truthy(ConfigField(internalConfig, "platformOrigin"))
                      THEN ConfigField(internalConfig, "platformOrigin")
                      ELSE Str("*")
                /\ env.gameId =
                      IF Truthy(ConfigField(internalConfig, "gameId"))
                      THEN ConfigField(internalConfig, "gameId")
                      ELSE Str("")
       /\ (posted' # posted) => (last'.op = "request" /\ hasParent)]_vars

\* a request was posted to the origin of the construction with an empty
\* game id, and after session updates that brought a game id and emptied
\* the origin the next one was posted to "*" with that game id
C32_Witness ==
    /\ last.op = "request"
    /\ \E env \in posted :
          /\ env.messageId = last.messageId
          /\ env.targetOrigin = Str("*")
          /\ env.gameId = Str("game2")
          /\ ConfigField(internalConfig, "platformOrigin") = Str("")
    /\ \E env \in posted : env.targetOrigin = Str(PlatformOrigin) /\ env.gameId = Str("")

\* C37: the platformOrigin that filters inbound messages and addresses
\* outbound requests is fixed when the instance is constructed: no inbound
\* platform message, an ARCAID_UPDATE_USER_SESSION in particular, changes
\* it, and none changes the gameId placed in outbound envelopes.
C37_OriginAndGameIdFixed ==
    [][(sdkInstance /\ last'.op = "message") =>
          /\ ConfigField(internalConfig', "platformOrigin")
                = ConfigField(internalConfig, "platformOrigin")
          /\ ConfigField(internalConfig', "gameId")
                = ConfigField(internalConfig, "gameId")]_vars

\* the message is the response to the posted config request
MatchingResponse(e) == e.type = ARCAID_PLATFORM_CONFIG_RESPONSE /\ e.sameId

\* C33: the loader's config handshake settles at most once.  It is entered
\* once, by init; it is left only by a message of type
\* ARCAID_PLATFORM_CONFIG_RESPONSE carrying the messageId of the posted
\* request, which resolves it with the message's payload, or by the
\* timeout; a message of another type or another messageId changes nothing
\* of the loader; once the handshake is settled neither the timeout nor
\* the listener is left, and a timeout or a matching response arriving
\* then changes nothing of the loader.
C33_HandshakeSettlesOnce ==
    [][/\ (loaderPc = "handshake" /\ loaderPc' # "handshake") =>
             \/ last'.op = "handshakeTimeout"
             \/ /\ last'.op = "loaderMessage"
                /\ MatchingResponse(last'.event)
                /\ platformConfig' = last'.event.payload
       /\ (loaderPc # "handshake" /\ loaderPc' = "handshake") =>
             (last'.op = "init" /\ configRequests = 0)
       /\ (last'.op = "loaderMessage" /\ ~MatchingResponse(last'.event)) =>
             UNCHANGED loaderVars
       /\ (loaderPc' # "handshake") => (~configTimer' /\ ~configListener')
       /\ (loaderPc # "handshake"
             /\ last'.op \in {"loaderMessage", "handshakeTimeout"}) =>
             UNCHANGED loaderVars]_vars

\* the timeout settled the handshake with {}, and the matching response
\* that arrived afterwards with a configuration was ignored
C33_Witness ==
    /\ last.op = "loaderMessage"
    /\ MatchingResponse(last.event)
    /\ Truthy(Get(last.event.payload, "coreSdkUrl"))
    /\ platformConfig = EmptyObj
    /\ loaderPc = "loading"
    /\ ~configListener
    /\ ~configTimer

\* loadScript is running: an attempt is loading or a retry is waiting
ScriptPending == loaderPc \in {"loading", "retryWait"}

\* C34: loading the core bundle terminates.  loadScript(url, 3) is called
\* once and makes at most 4 load attempts, the first and one per retry
\* left; an attempt is made only when loadScript starts and when the delay
\* after a failed attempt has passed; when an attempt succeeds loadScript
\* is over and no further attempt is made; a failed attempt with retries
\* left waits for the delay, and the failure of the last attempt rejects
\* init's promise.
C34_LoadScriptBounded ==
    [][/\ loadScriptCalls' <= 1
       /\ loadAttempts' <= LoadRetries + 1
       /\ ScriptPending' => (loadAttempts' + retriesLeft' = LoadRetries + 1)
       /\ (loadAttempts' # loadAttempts) =>
             /\ loadAttempts' = loadAttempts + 1
             /\ \/ ~ScriptPending /\ loadAttempts = 0
                \/ loaderPc = "retryWait" /\ last'.op = "retry"
       /\ (loaderPc = "loading" /\ last'.op \in {"initialize", "invalidScript"}) =>
             ~ScriptPending'
       /\ (~ScriptPending /\ loadAttempts > 0) =>
             (~ScriptPending' /\ loadAttempts' = loadAttempts)
       /\ (last'.op = "scriptError" /\ loadAttempts <= LoadRetries) =>
             (loaderPc' = "retryWait" /\ coreSdkPromise' = "pending")
       /\ (last'.op = "scriptError" /\ loadAttempts = LoadRetries + 1) =>
             (loaderPc' = "failed" /\ coreSdkPromise' = "rejected")]_vars

\* the fourth attempt failed and init's promise is rejected
C34_Witness ==
    /\ last.op = "scriptError"
    /\ loadAttempts = LoadRetries + 1
    /\ retriesLeft = 0
    /\ loaderPc = "failed"
    /\ coreSdkPromise = "rejected"

\* v is { success: false, error: <string> }
StructuredFailure(v) ==
    /\ v.tag = "object"
    /\ DOMAIN v.f = {"success", "error"}
    /\ v.f["success"] = Bool(FALSE)
    /\ v.f["error"].tag \in {"string", "text"}

\* C35: every rejection of payments.makeBet, by local validation, for a
\* missing parent window, by a timeout or by an error response of the
\* platform, carries { success: false, error: <string message> }, the
\* message being the one of the error requestParent rejected with; makeBet
\* never rejects with a bare Error, and every call returns a promise
\* (nothing is thrown synchronously).
C35_BetRejectionsStructured ==
    /\ last.op = "makeBet" =>
          /\ last.returned.state = "rejected"
          /\ StructuredFailure(last.returned.value)
    /\ \A i \in MessageIds :
          caller[i] = "makeBet" =>
             /\ opPromise[i].state \in {"pending", "resolved", "rejected"}
             /\ (opPromise[i].state = "rejected") = (promise[i].state = "rejected")
             /\ opPromise[i].state = "rejected" =>
                   /\ StructuredFailure(opPromise[i].value)
                   /\ opPromise[i].value.f["error"] = ErrorMessage(promise[i].value)

\* the first bet was rejected by an error response of the platform and
\* the second by its timeout, each with the structured failure
C35_Witness ==
    /\ caller[1] = "makeBet"
    /\ caller[2] = "makeBet"
    /\ opPromise[1].state = "rejected"
    /\ opPromise[1].value = Obj2("success", Bool(FALSE), "error", Str("boom"))
    /\ opPromise[2].state = "rejected"
    /\ promise[2].value = ErrTimeout(BET_REQUEST, 2)
    /\ StructuredFailure(opPromise[2].value)

\* how often the calls of the latest task invoked callback
CallsTo(calls, callback) ==
    Cardinality({i \in 1..Len(calls) : calls[i].callback = callback})

\* the onMessage registrations of callback that a message of type T matches
MatchingRegistrations(callback, T) ==
    {k \in {T, Str("*")} : callback \in Registered("roomMessage", k)}

\* C36: for one inbound MULTIPLAYER_ROOM_MESSAGE_EVENT each registered
\* onMessage listener is invoked at most once, whatever the payload's
\* messageType is, "*" included: a callback is invoked at most once per
\* registration of it that the message matches.  When the payload is
\* absent or has no messageType, no listener is invoked.
C36_AtMostOncePerListener ==
    (/\ last.op = "message"
     /\ last.route = "multiplayer"
     /\ last.event.data.type = MULTIPLAYER_ROOM_MESSAGE_EVENT) =>
        LET T == Get(last.event.data.payload, "messageType")
        IN  /\ \A cb \in Callbacks :
                  CallsTo(last.calls, cb) <= Cardinality(MatchingRegistrations(cb, T))
            /\ (T = Undefined) => (last.calls = <<>>)

\* the latest task was the delivery, after init was called, of a session
\* update from the platform with a logged-in session and a token
SessionDeliveredAfterInit ==
    /\ initCalled
    /\ last.op = "message"
    /\ last.event.origin = PlatformOrigin
    /\ last.event.data.source = "ARCAID_PLATFORM"
    /\ last.event.data.type = ARCAID_UPDATE_USER_SESSION
    /\ LoggedInWithToken(Obj1("userSession",
                              Get(last.event.data.payload, "userSession")).f)

\* C38: if the platform delivers an ARCAID_UPDATE_USER_SESSION with a
\* logged-in session and a non-empty token at any time after Arcaid.init()
\* was called, ready() eventually resolves, also when the event arrives
\* before ArcaidCore.initialize has created the instance.
C38_SessionEventNotLost ==
    SessionDeliveredAfterInit ~> (readyPromise = "resolved")

\* C39: when an unsolicited multiplayer event is dispatched to a registry
\* holding several listeners, a listener that throws does not keep the
\* other listeners of the registry (for room messages: the listeners of
\* the type and of "*") from being invoked for the event, and the
\* registries and the pending-request table stay as they were.
C39_ThrowDoesNotStopOthers ==
    [][(last'.op = "message" /\ last'.route = "multiplayer") =>
          /\ \A cb \in MatchedBy(last'.event.data) : CallsTo(last'.calls, cb) >= 1
          /\ UNCHANGED <<listenerVars, pendingRequests>>]_vars

====
